---- MODULE Spec2Model ----
(***************************************************************************)
(* A model of the MA-PartD-CY2025 build pipeline:                          *)
(*   scripts/build_ma_dataset.mjs   (Ingestion Engine, Geo Resolver)       *)
(*   scripts/resolve_sb_urls.mjs    (Source Discovery Engine)              *)
(*   scripts/build_ma_benefits.mjs  (Benefit Extraction Engine)            *)
(* Each script is a program of its own; a behaviour is a run of one of     *)
(* them.  Text is modelled as a tuple of one-character strings so that     *)
(* trimming, padding, case folding and pattern search are computed.        *)
(***************************************************************************)
EXTENDS Integers, Sequences, FiniteSets, TLC

VARIABLES
  \* ---- build_ma_dataset.mjs
  ipc,               \* position of the script: "rows" | "emit" | "done"
  rows,              \* the source rows of the table, in row order, read so far
  carriersByCounty,  \* insertion-ordered Map county_fips -> bucket
  emitIdx,           \* number of buckets already written by the emit loop
  byCountyFiles,     \* by-county/<fips>.json files written, in write order
  countyIndexFile,   \* county-index.json (<<>> until written)
  \* ---- resolve_sb_urls.mjs
  dpc,               \* position of the script: "start" | "running" | "done" | "crashed"
  serpKey,           \* is SERPAPI_KEY set
  conc,              \* the concurrency given to pLimit
  byCountyPlans,     \* the plans of dist/years/<y>/by-county/*.json, in scan order
  plans,             \* collectPlansForYear(y)
  docs,              \* what each candidate URL answers during this run
  task,              \* per plan: the position of its pooled task in resolveOne
  queue,             \* p-limit's queue of tasks not yet started
  foundRows,         \* the `rows` array of the main loop
  missing,           \* the `missing` array of the main loop
  sourcesFile,       \* dist/benefits/auto/<y>_sources.csv
  missingFile,       \* dist/benefits/auto/missing_<y>.json
  dyears,            \* YEARS of this script
  autoOther,         \* the two files of each target year other than the one iterated
  \* ---- build_ma_benefits.mjs
  xpc,               \* position of the script: "start" | "running" | "done"
  requireOk,         \* is `require` defined where readText calls it
  years,             \* YEARS
  manualTables,      \* data/benefits/<y>_sources.csv, per year, as parsed rows
  autoTables,        \* dist/benefits/auto/<y>_sources.csv, per year, as parsed rows
  xdocs,             \* what each source URL answers during this run
  allSources,        \* allSources
  xtask,             \* per source: the position of its pooled processOne
  xqueue,            \* p-limit's queue of tasks not yet started
  byPlanFiles,       \* dist/benefits/by-plan/<key>.json files
  planIndexFile,     \* dist/benefits/plan-index.json
  \* ---- build_ma_benefits.mjs, the extractors applied to one document
  npc,               \* "text" before the extractors ran, "done" after
  txt,               \* the text of the document, as its lines
  nutrition,         \* the result of extractNutrition
  medical,           \* the result of extractMedical
  supplemental,      \* the result of extractSupplemental
  \* ---- build_ma_dataset.mjs, buildZipIndex
  zpc,               \* "file" before buildZipIndex ran, "done" after
  zfile,             \* the relationship file: its header and its lines
  zipIndex,          \* the returned index
  \* ---- build_ma_dataset.mjs, loadLandscapeRows
  tpc,               \* "archive" before the call, "done" after
  entries,           \* the entries of the archive, in archive order
  landscape,         \* what the call gave: a table, or the fatal error
  \* ---- build_ma_benefits.mjs, findNearby
  kpc,               \* "text" before findNearby ran, "done" after
  ktext,             \* the text that is normalized, as its lines
  kpattern,          \* the pattern given
  kradius,           \* the radius given
  snippet            \* what findNearby returned

ingVars == <<ipc, rows, carriersByCounty, emitIdx, byCountyFiles, countyIndexFile>>

discVars == <<dpc, serpKey, conc, byCountyPlans, plans, docs, task, queue, foundRows, missing,
              sourcesFile, missingFile, dyears, autoOther>>

extVars == <<xpc, requireOk, years, manualTables, autoTables, xdocs, allSources, xtask,
             xqueue, byPlanFiles, planIndexFile>>

txtVars == <<npc, txt, nutrition, medical, supplemental>>

zipVars == <<zpc, zfile, zipIndex>>

tabVars == <<tpc, entries, landscape>>

nearVars == <<kpc, ktext, kpattern, kradius, snippet>>

vars == <<ingVars, discVars, extVars, txtVars, zipVars, tabVars, nearVars>>

\* what a run of one script leaves alone: the state of the other scripts
notIngVars == <<discVars, extVars, txtVars, zipVars, tabVars, nearVars>>
notDiscVars == <<ingVars, extVars, txtVars, zipVars, tabVars, nearVars>>
notExtVars == <<ingVars, discVars, txtVars, zipVars, tabVars, nearVars>>
notTxtVars == <<ingVars, discVars, extVars, zipVars, tabVars, nearVars>>
notZipVars == <<ingVars, discVars, extVars, txtVars, tabVars, nearVars>>
notTabVars == <<ingVars, discVars, extVars, txtVars, zipVars, nearVars>>
notNearVars == <<ingVars, discVars, extVars, txtVars, zipVars, tabVars>>

(***************************************************************************)
(* Text helpers (JavaScript String methods and the regexes the code uses)  *)
(***************************************************************************)
Digit == {"0", "1", "2", "3", "4", "5", "6", "7", "8", "9"}

DigitVal(c) ==
  CASE c = "0" -> 0 [] c = "1" -> 1 [] c = "2" -> 2 [] c = "3" -> 3 [] c = "4" -> 4
    [] c = "5" -> 5 [] c = "6" -> 6 [] c = "7" -> 7 [] c = "8" -> 8 [] c = "9" -> 9
    [] OTHER -> 0

DigitChar(n) ==
  CASE n = 0 -> "0" [] n = 1 -> "1" [] n = 2 -> "2" [] n = 3 -> "3" [] n = 4 -> "4"
    [] n = 5 -> "5" [] n = 6 -> "6" [] n = 7 -> "7" [] n = 8 -> "8" [] OTHER -> "9"

\* String(n) for a natural number n
RECURSIVE NumText(_)
NumText(n) == IF n < 10 THEN <<DigitChar(n)>> ELSE NumText(n \div 10) \o <<DigitChar(n % 10)>>

\* Number(s) for a tuple of digits
RECURSIVE NumberOf(_)
NumberOf(s) ==
  IF s = <<>> THEN 0 ELSE 10 * NumberOf(SubSeq(s, 1, Len(s) - 1)) + DigitVal(s[Len(s)])

IsDigit(c) == c \in Digit
IsSpace(c) == c = " "

\* s.trim()
RECURSIVE Trim(_)
Trim(s) ==
  IF s = <<>> THEN s
  ELSE IF IsSpace(s[1]) THEN Trim(Tail(s))
  ELSE IF IsSpace(s[Len(s)]) THEN Trim(SubSeq(s, 1, Len(s) - 1))
  ELSE s

UpperChar(c) ==
  CASE c = "a" -> "A" [] c = "b" -> "B" [] c = "c" -> "C" [] c = "d" -> "D"
    [] c = "e" -> "E" [] c = "f" -> "F" [] c = "g" -> "G" [] c = "h" -> "H"
    [] c = "i" -> "I" [] c = "j" -> "J" [] c = "k" -> "K" [] c = "l" -> "L"
    [] c = "m" -> "M" [] c = "n" -> "N" [] c = "o" -> "O" [] c = "p" -> "P"
    [] c = "q" -> "Q" [] c = "r" -> "R" [] c = "s" -> "S" [] c = "t" -> "T"
    [] c = "u" -> "U" [] c = "v" -> "V" [] c = "w" -> "W" [] c = "x" -> "X"
    [] c = "y" -> "Y" [] c = "z" -> "Z"
    [] OTHER -> c

LowerChar(c) ==
  CASE c = "A" -> "a" [] c = "B" -> "b" [] c = "C" -> "c" [] c = "D" -> "d"
    [] c = "E" -> "e" [] c = "F" -> "f" [] c = "G" -> "g" [] c = "H" -> "h"
    [] c = "I" -> "i" [] c = "J" -> "j" [] c = "K" -> "k" [] c = "L" -> "l"
    [] c = "M" -> "m" [] c = "N" -> "n" [] c = "O" -> "o" [] c = "P" -> "p"
    [] c = "Q" -> "q" [] c = "R" -> "r" [] c = "S" -> "s" [] c = "T" -> "t"
    [] c = "U" -> "u" [] c = "V" -> "v" [] c = "W" -> "w" [] c = "X" -> "x"
    [] c = "Y" -> "y" [] c = "Z" -> "z"
    [] OTHER -> c

\* s.toUpperCase(), s.toLowerCase()
ToUpperCase(s) == [i \in 1..Len(s) |-> UpperChar(s[i])]
ToLowerCase(s) == [i \in 1..Len(s) |-> LowerChar(s[i])]

\* s.padStart(n, c)
PadStart(s, n, c) == IF Len(s) >= n THEN s ELSE [i \in 1..(n - Len(s)) |-> c] \o s

\* s.startsWith(p) at offset i (1-based)
MatchAt(s, p, i) == /\ i + Len(p) - 1 <= Len(s)
                    /\ \A j \in 1..Len(p) : s[i + j - 1] = p[j]

StartsWith(s, p) == MatchAt(s, p, 1)

EndsWith(s, p) == Len(p) <= Len(s) /\ MatchAt(s, p, Len(s) - Len(p) + 1)

\* /p/.test(s) for a literal p
Contains(s, p) == \E i \in 1..(Len(s) + 1) : MatchAt(s, p, i)

\* (s.match(/\d{k}/) || [])[0] : the first run of k digits, <<>> when none
DigitRunAt(s, k, i) == /\ i + k - 1 <= Len(s)
                       /\ \A j \in i..(i + k - 1) : IsDigit(s[j])

FirstDigitRun(s, k) ==
  IF \E i \in 1..Len(s) : DigitRunAt(s, k, i)
  THEN LET i == CHOOSE i \in 1..Len(s) :
                  /\ DigitRunAt(s, k, i)
                  /\ \A j \in 1..(i - 1) : ~DigitRunAt(s, k, j)
       IN SubSeq(s, i, i + k - 1)
  ELSE <<>>

\* s.replace(/\D/g, "")
StripNonDigits(s) == SelectSeq(s, IsDigit)


(***************************************************************************)
(* build_ma_dataset.mjs : constants and helpers                            *)
(***************************************************************************)
\* TARGET_YEARS default
TargetYear == 2025

\* plans.slice(0, 20)
PlanCap == 20

\* cleanFips pads to this width
FipsWidth == 5

\* the Map get / set of JavaScript on an insertion-ordered sequence of entries
IndexOfKey(m, k) ==
  IF \E i \in 1..Len(m) : m[i].key = k
  THEN CHOOSE i \in 1..Len(m) : m[i].key = k
  ELSE 0

\* an array push in place of Set.add: the value is appended even when present
SetAddRepeating(s, x) == Append(s, x)

\* Set.add on an insertion-ordered sequence
SetAdd(s, x) == IF \E i \in 1..Len(s) : s[i] = x THEN s ELSE Append(s, x)

\* cleanFips(v); undefined is modelled as the (equally falsy) empty text
cleanFips(v) ==
  IF v = <<>> THEN <<>>
  ELSE LET s == StripNonDigits(v)
       IN IF s = <<>> THEN <<>> ELSE PadStart(s, FipsWidth, "0")

\* the alternatives of the LSAD regex of normalizeCountyName, in regex order
Lsads == <<
  <<"c","o","u","n","t","y">>,
  <<"p","a","r","i","s","h">>,
  <<"b","o","r","o","u","g","h">>,
  <<"c","e","n","s","u","s"," ","a","r","e","a">>,
  <<"c","i","t","y"," ","a","n","d"," ","b","o","r","o","u","g","h">>,
  <<"m","u","n","i","c","i","p","a","l","i","t","y">>,
  <<"i","n","d","e","p","e","n","d","e","n","t"," ","c","i","t","y">> >>

\* s.replace(/county|parish|.../g, "")
RECURSIVE RemoveLsads(_)
RemoveLsads(s) ==
  IF s = <<>> THEN s
  ELSE IF \E a \in 1..Len(Lsads) : MatchAt(s, Lsads[a], 1)
  THEN LET a == CHOOSE a \in 1..Len(Lsads) :
                  /\ MatchAt(s, Lsads[a], 1)
                  /\ \A b \in 1..(a - 1) : ~MatchAt(s, Lsads[b], 1)
       IN RemoveLsads(SubSeq(s, Len(Lsads[a]) + 1, Len(s)))
  ELSE <<s[1]>> \o RemoveLsads(Tail(s))

\* s.replace(/\s+/g, " ")
RECURSIVE CollapseSpaces(_)
CollapseSpaces(s) ==
  IF Len(s) < 2 THEN s
  ELSE IF IsSpace(s[1]) /\ IsSpace(s[2]) THEN CollapseSpaces(Tail(s))
  ELSE <<s[1]>> \o CollapseSpaces(Tail(s))

normalizeCountyName(name) == Trim(CollapseSpaces(RemoveLsads(ToLowerCase(name))))

keyCounty(stateAbbr, countyName) ==
  ToUpperCase(Trim(stateAbbr)) \o <<":", ":">> \o normalizeCountyName(countyName)

\* the gazetteer lines read by buildCountyFipsMap: USPS, GEOID, NAME
GazetteerLines == <<
  [usps |-> <<"A","L">>, geoid |-> <<"0","1","0","0","1">>,
   name |-> <<"A","u"," ","C","o","u","n","t","y">>],
  [usps |-> <<"A","L">>, geoid |-> <<"0","1","0","0","3">>,
   name |-> <<"B","a"," ","C","o","u","n","t","y">>] >>

\* buildCountyFipsMap followed by countyFipsMap.get(key): a later line with the
\* same key overwrites an earlier one; <<>> stands for undefined
countyFipsMapGet(key) ==
  LET hits == {i \in 1..Len(GazetteerLines) :
                 keyCounty(GazetteerLines[i].usps, GazetteerLines[i].name) = key}
  IN IF hits = {} THEN <<>>
     ELSE GazetteerLines[CHOOSE i \in hits : \A j \in hits : j <= i].geoid

\* a filter that forgets the contract prefix
yearFilterAnyContract(r) ==
  LET cy == FirstDigitRun(r.year, 4)
  IN cy # <<>> /\ NumberOf(cy) = TargetYear

\* the yrRows filter: the year cell holds the target year and the contract id
\* begins with H or R
yearFilter(r) ==
  LET cy  == FirstDigitRun(r.year, 4)
      cid == ToUpperCase(Trim(r.contract))
  IN /\ cy # <<>>
     /\ NumberOf(cy) = TargetYear
     /\ (StartsWith(cid, <<"H">>) \/ StartsWith(cid, <<"R">>))

\* county FIPS resolution of one row (<<>>: the row is skipped)
resolveRowFips(r) ==
  LET direct == cleanFips(r.fips)
      embedded == IF direct # <<>> THEN direct ELSE FirstDigitRun(r.fips, 5)
      state == Trim(r.state)
      countyName == Trim(r.county)
  IN IF embedded # <<>> THEN embedded
     ELSE IF state = <<>> \/ countyName = <<>> THEN <<>>
     ELSE countyFipsMapGet(keyCounty(state, countyName))

\* the plan summary pushed for a row
planSummary(r) ==
  [contractId    |-> Trim(r.contract),
   planId        |-> Trim(r.plan),
   segmentId     |-> IF Trim(r.segment) = <<>> THEN <<"0","0","0">> ELSE Trim(r.segment),
   marketingName |-> Trim(r.planName),
   planType      |-> Trim(r.planType),
   snpType       |-> Trim(r.snpType)]

\* the carrier key of a row: orgName, falling back to the contract id
carrierKey(r) == IF Trim(r.org) = <<>> THEN Trim(r.contract) ELSE Trim(r.org)

\* does the loop body reach carrier.plans.push for this row
rowIsPlaced(r) ==
  /\ resolveRowFips(r) # <<>>
  /\ Trim(r.contract) # <<>>
  /\ Trim(r.plan) # <<>>

\* one iteration of `for (const r of yrRows)`: the map after the row
aggregateRow(m, r) ==
  IF ~rowIsPlaced(r) THEN m
  ELSE
    LET fips == resolveRowFips(r)
        bi   == IndexOfKey(m, fips)
        m1   == IF bi # 0 THEN m
                ELSE Append(m, [key |-> fips, state |-> Trim(r.state),
                                county_name |-> IF Trim(r.county) = <<>>
                                                THEN <<"(","U",")">> ELSE Trim(r.county),
                                carriers |-> <<>>])
        b    == IF bi # 0 THEN bi ELSE Len(m1)
        cs   == m1[b].carriers
        ci   == IndexOfKey(cs, carrierKey(r))
        cs1  == IF ci # 0 THEN cs
                ELSE Append(cs, [key |-> carrierKey(r), orgName |-> carrierKey(r),
                                 contractIds |-> <<>>, plans |-> <<>>])
        c    == IF ci # 0 THEN ci ELSE Len(cs1)
        cs2  == [cs1 EXCEPT ![c].contractIds = SetAdd(@, Trim(r.contract)),
                             ![c].plans = Append(@, planSummary(r))]
    IN [m1 EXCEPT ![b].carriers = cs2]

\* a cap that keeps the last PlanCap plans instead of the first
capPlansRotated(ps) ==
  SubSeq(ps, IF Len(ps) <= PlanCap THEN 1 ELSE Len(ps) - PlanCap + 1, Len(ps))

\* plans.slice(0, 20)
capPlans(ps) == SubSeq(ps, 1, IF Len(ps) < PlanCap THEN Len(ps) ELSE PlanCap)

\* an artifact that lists the carriers newest first
countyArtifactNewestFirst(bucket) ==
  LET n == Len(bucket.carriers)
  IN [year        |-> TargetYear,
      county_fips |-> bucket.key,
      state       |-> bucket.state,
      county_name |-> bucket.county_name,
      carriers    |-> [i \in 1..n |->
                         [orgName     |-> bucket.carriers[n + 1 - i].orgName,
                          contractIds |-> bucket.carriers[n + 1 - i].contractIds,
                          plans       |-> capPlans(bucket.carriers[n + 1 - i].plans)]]]

\* the JSON document written for one bucket
countyArtifact(bucket) ==
  [year        |-> TargetYear,
   county_fips |-> bucket.key,
   state       |-> bucket.state,
   county_name |-> bucket.county_name,
   carriers    |-> [i \in 1..Len(bucket.carriers) |->
                      [orgName     |-> bucket.carriers[i].orgName,
                       contractIds |-> bucket.carriers[i].contractIds,
                       plans       |-> capPlans(bucket.carriers[i].plans)]]]

\* a.localeCompare(b) < 0 on digit texts
RECURSIVE TextLess(_, _)
TextLess(a, b) ==
  IF b = <<>> THEN FALSE
  ELSE IF a = <<>> THEN TRUE
  ELSE IF a[1] # b[1] THEN DigitVal(a[1]) < DigitVal(b[1])
  ELSE TextLess(Tail(a), Tail(b))

\* countyIndex.sort((a, b) => a.fips.localeCompare(b.fips)) (stable)
RECURSIVE sortByFips(_)
sortByFips(s) ==
  IF Len(s) < 2 THEN s
  ELSE LET i == CHOOSE i \in 1..Len(s) :
                  /\ \A j \in 1..Len(s) : ~TextLess(s[j].fips, s[i].fips)
                  /\ \A j \in 1..(i - 1) : TextLess(s[i].fips, s[j].fips)
       IN <<s[i]>> \o sortByFips(SubSeq(s, 1, i - 1) \o SubSeq(s, i + 1, Len(s)))

(***************************************************************************)
(* build_ma_dataset.mjs : the source rows offered to a run                 *)
(***************************************************************************)
\* the longest table of the uniform family, and the number of rows of such a
\* table that may differ from the principal row
MaxRows == 22
MaxOdd == 1
\* the longest table of the free family (any row kinds)
MaxShort == 3

RowKinds == {"main", "orgB", "lower", "nonMA", "otherYear", "yearText", "blankPlan",
             "byName", "noCounty", "embedded", "noOrg", "longFips", "blankContract"}

LongOddKinds == {"orgB", "lower", "nonMA", "blankPlan", "noCounty"}

\* the i-th row of a table, of the given kind; its plan id is the row number
MainRow(i) ==
  [kind     |-> "main",
   year     |-> <<"2","0","2","5">>,
   contract |-> <<"H","1">>,
   plan     |-> NumText(i),
   segment  |-> <<>>,
   fips     |-> <<"1","0","0","1">>,
   state    |-> <<"A","L">>,
   county   |-> <<"A","u"," ","C","o","u","n","t","y">>,
   org      |-> <<"A">>,
   planName |-> <<"P">>,
   planType |-> <<"H","M","O">>,
   snpType  |-> <<>>]

MkRow(kind, i) ==
  LET m == [MainRow(i) EXCEPT !.kind = kind]
  IN CASE kind = "main"          -> m
       [] kind = "orgB"          -> [m EXCEPT !.org = <<"B">>, !.contract = <<"R","2">>]
       [] kind = "lower"         -> [m EXCEPT !.contract = <<" ","h","9">>, !.segment = <<"1">>]
       [] kind = "nonMA"         -> [m EXCEPT !.contract = <<"S","3">>]
       [] kind = "otherYear"     -> [m EXCEPT !.year = <<"2","0","2","4">>]
       [] kind = "yearText"      -> [m EXCEPT !.year = <<"C","Y"," ","2","0","2","5">>]
       [] kind = "blankPlan"     -> [m EXCEPT !.plan = <<" ">>]
       [] kind = "byName"        -> [m EXCEPT !.fips = <<>>,
                                              !.county = <<"b","a"," "," ","P","a","r","i","s","h">>]
       [] kind = "noCounty"      -> [m EXCEPT !.fips = <<"n","a">>, !.county = <<"Z">>]
       [] kind = "embedded"      -> [m EXCEPT !.fips = <<"0","1","0","0","3"," ","-"," ","B","a">>]
       [] kind = "noOrg"         -> [m EXCEPT !.org = <<" ">>, !.contract = <<"H","(","1">>]
       [] kind = "longFips"      -> [m EXCEPT !.fips = <<"1","2","3","4","5","6">>]
       [] OTHER                  -> [m EXCEPT !.contract = <<>>]

OddCount(t) == Cardinality({i \in 1..Len(t) : t[i].kind # "main"})

\* the tables a run is offered: every table of at most MaxShort rows, and every
\* table of at most MaxRows rows of which at most MaxOdd are not principal rows
Admitted(t) ==
  \/ Len(t) <= MaxShort
  \/ /\ Len(t) <= MaxRows
     /\ OddCount(t) <= MaxOdd
     /\ \A i \in 1..Len(t) : t[i].kind \in LongOddKinds \cup {"main"}

(***************************************************************************)
(* build_ma_dataset.mjs : the run                                          *)
(***************************************************************************)
\* the state of a script that is not the one running
DiscIdle ==
  /\ dpc = "idle"
  /\ serpKey = FALSE
  /\ conc = 0
  /\ byCountyPlans = <<>>
  /\ plans = <<>>
  /\ docs = <<>>
  /\ task = <<>>
  /\ queue = <<>>
  /\ foundRows = <<>>
  /\ missing = <<>>
  /\ sourcesFile = [written |-> FALSE, rows |-> <<>>]
  /\ missingFile = [written |-> FALSE, plans |-> <<>>]
  /\ dyears = <<>>
  /\ autoOther = <<>>

ZipIdle ==
  /\ zpc = "idle"
  /\ zfile = <<>>
  /\ zipIndex = <<>>

TabIdle ==
  /\ tpc = "idle"
  /\ entries = <<>>
  /\ landscape = <<>>

NearIdle ==
  /\ kpc = "idle"
  /\ ktext = <<>>
  /\ kpattern = ""
  /\ kradius = 0
  /\ snippet = <<>>

TxtIdle ==
  /\ npc = "idle"
  /\ txt = <<>>
  /\ nutrition = <<>>
  /\ medical = <<>>
  /\ supplemental = <<>>

ExtIdle ==
  /\ xpc = "idle"
  /\ requireOk = FALSE
  /\ years = <<>>
  /\ manualTables = <<>>
  /\ autoTables = <<>>
  /\ xdocs = <<>>
  /\ allSources = <<>>
  /\ xtask = <<>>
  /\ xqueue = <<>>
  /\ byPlanFiles = {}
  /\ planIndexFile = [written |-> FALSE, entries |-> <<>>]

IngIdle ==
  /\ ipc = "idle"
  /\ rows = <<>>
  /\ carriersByCounty = <<>>
  /\ emitIdx = 0
  /\ byCountyFiles = <<>>
  /\ countyIndexFile = <<>>

IngInit ==
  /\ DiscIdle
  /\ ExtIdle
  /\ TxtIdle
  /\ ZipIdle
  /\ TabIdle
  /\ NearIdle
  /\ ipc = "rows"
  /\ rows = <<>>
  /\ carriersByCounty = <<>>
  /\ emitIdx = 0
  /\ byCountyFiles = <<>>
  /\ countyIndexFile = <<>>

\* the next source row is filtered and, when it passes, aggregated
ReadRow ==
  /\ ipc = "rows"
  /\ \E kind \in RowKinds :
       LET r == MkRow(kind, Len(rows) + 1)
       IN /\ Admitted(Append(rows, r))
          /\ rows' = Append(rows, r)
          /\ carriersByCounty' = IF yearFilter(r) THEN aggregateRow(carriersByCounty, r)
                                 ELSE carriersByCounty
  /\ UNCHANGED <<ipc, emitIdx, byCountyFiles, countyIndexFile>>
  /\ UNCHANGED notIngVars

\* one iteration of the emit loop: the next bucket's file is written
EmitCounty ==
  /\ ipc \in {"rows", "emit"}
  /\ emitIdx < Len(carriersByCounty)
  /\ ipc' = "emit"
  /\ emitIdx' = emitIdx + 1
  /\ byCountyFiles' = Append(byCountyFiles, countyArtifact(carriersByCounty[emitIdx + 1]))
  /\ UNCHANGED <<rows, carriersByCounty, countyIndexFile>>
  /\ UNCHANGED notIngVars

\* after the loop the sorted county index is written
WriteCountyIndex ==
  /\ ipc \in {"rows", "emit"}
  /\ emitIdx = Len(carriersByCounty)
  /\ ipc' = "done"
  /\ countyIndexFile' = sortByFips([i \in 1..Len(carriersByCounty) |->
                                      [fips  |-> carriersByCounty[i].key,
                                       state |-> carriersByCounty[i].state,
                                       name  |-> carriersByCounty[i].county_name]])
  /\ UNCHANGED <<rows, carriersByCounty, emitIdx, byCountyFiles>>
  /\ UNCHANGED notIngVars

IngNext == ReadRow \/ EmitCounty \/ WriteCountyIndex

SpecIngest == IngInit /\ [][IngNext]_vars

(***************************************************************************)
(* Claims about the Ingestion Engine                                       *)
(***************************************************************************)
\* the plans of every emitted artifact, with their county and carrier
EmittedPlans ==
  UNION { UNION { { [fips |-> byCountyFiles[f].county_fips,
                     carrier |-> byCountyFiles[f].carriers[c].orgName,
                     plan |-> byCountyFiles[f].carriers[c].plans[p]] :
                    p \in 1..Len(byCountyFiles[f].carriers[c].plans) } :
                  c \in 1..Len(byCountyFiles[f].carriers) } :
          f \in 1..Len(byCountyFiles) }

\* the row kinds that are valid in the spec's terms: target year, an H or R
\* contract, non-blank contract and plan ids, a county that resolves
ValidKinds == {"main", "orgB", "lower", "yearText", "byName", "embedded", "noOrg", "longFips"}

\* the valid source rows of one carrier in one county, in source row order
ValidRowsOf(fips, carrier) ==
  LET Mine(r) == /\ r.kind \in ValidKinds
                 /\ resolveRowFips(r) = fips
                 /\ carrierKey(r) = carrier
  IN SelectSeq(rows, Mine)

Min(a, b) == IF a < b THEN a ELSE b

\* C1: for every carrier of every emitted county artifact, the plans list is
\* exactly the first min(n, 20) plan summaries of the carrier's n valid source
\* rows in that county, in source row order; it never holds more than 20 plans.
C1_PlansAreFirstTwenty ==
  \A f \in 1..Len(byCountyFiles) :
    \A c \in 1..Len(byCountyFiles[f].carriers) :
      LET src == ValidRowsOf(byCountyFiles[f].county_fips, byCountyFiles[f].carriers[c].orgName)
          out == byCountyFiles[f].carriers[c].plans
      IN /\ Len(out) <= 20
         /\ out = [i \in 1..Min(Len(src), 20) |-> planSummary(src[i])]

\* C1 witness: a carrier with more than 20 valid rows has been emitted with 20 plans
C1_Witness ==
  \E f \in 1..Len(byCountyFiles) :
    \E c \in 1..Len(byCountyFiles[f].carriers) :
      /\ Len(ValidRowsOf(byCountyFiles[f].county_fips,
                         byCountyFiles[f].carriers[c].orgName)) > 20
      /\ Len(byCountyFiles[f].carriers[c].plans) = 20

DefaultConcurrency == 2
Limits == {1, DefaultConcurrency}

\* a key that keeps the contract id as written
toKeyAsWritten(year, contractId, planId, segmentId) ==
  LET seg == PadStart(IF segmentId = <<>> THEN <<"0","0","0">> ELSE segmentId, 3, "0")
  IN NumText(year) \o <<"-">> \o contractId \o <<"-">>
       \o PadStart(planId, 3, "0") \o <<"-">> \o seg

toKey(year, contractId, planId, segmentId) ==
  LET seg == PadStart(IF segmentId = <<>> THEN <<"0","0","0">> ELSE segmentId, 3, "0")
  IN NumText(year) \o <<"-">> \o ToUpperCase(contractId) \o <<"-">>
       \o PadStart(planId, 3, "0") \o <<"-">> \o seg

planKeyOf(p) == toKey(p.year, p.contractId, p.planId, p.segmentId)

\* uniquePlans: the first plan of each key, with its key attached
RECURSIVE uniquePlansFrom(_, _)
uniquePlansFrom(arr, out) ==
  IF arr = <<>> THEN out
  ELSE LET k == planKeyOf(arr[1])
       IN uniquePlansFrom(Tail(arr),
            IF \E i \in 1..Len(out) : out[i].cmsPlanKey = k THEN out
            ELSE Append(out, [year |-> arr[1].year, contractId |-> arr[1].contractId,
                              planId |-> arr[1].planId, segmentId |-> arr[1].segmentId,
                              orgName |-> arr[1].orgName,
                              marketingName |-> arr[1].marketingName,
                              cmsPlanKey |-> k]))

uniquePlans(arr) == uniquePlansFrom(arr, <<>>)

\* contractId.replace(/[-\s]/g, "")
IsDashOrSpace(c) == c = "-" \/ c = " "
NotDashOrSpace(c) == ~IsDashOrSpace(c)
stripDashSpace(s) == SelectSeq(s, NotDashOrSpace)

\* new RegExp(src): of the characters the model uses only the parentheses are
\* syntax; an unbalanced one makes the constructor throw
RECURSIVE ParensBalanced(_, _)
ParensBalanced(s, depth) ==
  IF s = <<>> THEN depth = 0
  ELSE IF s[1] = "(" THEN ParensBalanced(Tail(s), depth + 1)
  ELSE IF s[1] = ")" THEN depth > 0 /\ ParensBalanced(Tail(s), depth - 1)
  ELSE ParensBalanced(Tail(s), depth)

\* does planRegex(contractId, planId, year) return (rather than throw)
planRegexCompiles(contractId, planId) ==
  ParensBalanced(stripDashSpace(contractId) \o PadStart(planId, 3, "0"), 0)

\* the text between i and j - 1 matches \s*[- ]?\s*
SeparatorBetween(t, i, j) ==
  /\ \A k \in i..(j - 1) : IsDashOrSpace(t[k])
  /\ Cardinality({k \in i..(j - 1) : t[k] = "-"}) <= 1

\* cp.test(text): contract id, separator, plan id padded to 3, ignoring case
cpTest(text, contractId, planId) ==
  LET t    == ToLowerCase(text)
      head == ToLowerCase(stripDashSpace(contractId))
      tail == ToLowerCase(PadStart(planId, 3, "0"))
  IN \E i \in 1..(Len(t) + 1) :
       /\ MatchAt(t, head, i)
       /\ \E j \in (i + Len(head))..(Len(t) + 1) :
            /\ SeparatorBetween(t, i + Len(head), j)
            /\ MatchAt(t, tail, j)

\* yr.test(text)
yrTest(text, year) == Contains(text, NumText(year))

\* words separated by \s+ starting at i
RECURSIVE WordsAt(_, _, _)
WordsAt(t, words, i) ==
  /\ MatchAt(t, words[1], i)
  /\ \/ Len(words) = 1
     \/ \E k \in 1..(Len(t) - i) :
          /\ \A m \in (i + Len(words[1]))..(i + Len(words[1]) + k - 1) :
               m <= Len(t) /\ IsSpace(t[m])
          /\ WordsAt(t, Tail(words), i + Len(words[1]) + k)

\* sob.test(text): /summary\s+of\s+benefits/i
sobTest(text) ==
  LET t == ToLowerCase(text)
  IN \E i \in 1..Len(t) :
       WordsAt(t, << <<"s","u","m","m","a","r","y">>, <<"o","f">>,
                     <<"b","e","n","e","f","i","t","s">> >>, i)

\* a verification that forgets the document-type marker
verifyTextNoMarker(p, text) ==
  cpTest(text, p.contractId, p.planId) /\ yrTest(text, p.year)

\* sob.test(text) && cp.test(text) && yr.test(text)
verifyText(p, text) ==
  sobTest(text) /\ cpTest(text, p.contractId, p.planId) /\ yrTest(text, p.year)

\* buildQueries(plan): q1, q2 and, with a marketing name, q3
buildQueries(p) ==
  LET q1 == [form |-> "cp", plan |-> p.cmsPlanKey]
      q2 == [form |-> "cp org", plan |-> p.cmsPlanKey]
      q3 == [form |-> "marketing name", plan |-> p.cmsPlanKey]
  IN IF p.marketingName # <<>> THEN <<q1, q2, q3>> ELSE <<q1, q2>>

\* a partition that keeps the results as the search listed them
pdfFirstAsListed(urls) == urls

\* urls.filter(has .pdf).concat(urls.filter(has no .pdf))
HasPdf(u) == Contains(ToLowerCase(u), <<".","p","d","f">>)
HasNoPdf(u) == ~HasPdf(u)
pdfFirst(urls) == SelectSeq(urls, HasPdf) \o SelectSeq(urls, HasNoPdf)

\* fetchPdfToText(url) given the answer of the host: it throws, returns null or
\* returns the extracted text
fetchPdfToText(url, resp) ==
  IF resp.net = "throw" THEN [kind |-> "throw", text |-> <<>>]
  ELSE IF resp.net = "notok" THEN [kind |-> "null", text |-> <<>>]
  ELSE IF ~resp.ctPdf /\ ~EndsWith(ToLowerCase(url), <<".","p","d","f">>)
       THEN [kind |-> "null", text |-> <<>>]
  ELSE IF ~resp.parses THEN [kind |-> "null", text |-> <<>>]
  ELSE [kind |-> "text", text |-> resp.text]

\* the body of the candidate loop: is this candidate returned
candidateVerifies(p, url, resp) ==
  LET t == fetchPdfToText(url, resp)
  IN t.kind = "text" /\ t.text # <<>> /\ verifyText(p, t.text)

(***************************************************************************)
(* resolve_sb_urls.mjs : the plans, the search results and the documents   *)
(* offered to a run                                                        *)
(***************************************************************************)
\* the most plans the by-county files hold
MaxPlans == 3

PlanPool == {
  [year |-> TargetYear, contractId |-> <<"H","1">>, planId |-> <<"1">>,
   segmentId |-> <<"0","0","0">>, orgName |-> <<"A">>, marketingName |-> <<"M">>],
  [year |-> TargetYear, contractId |-> <<"h","1">>, planId |-> <<"0","0","1">>,
   segmentId |-> <<"0","0","0">>, orgName |-> <<"Z">>, marketingName |-> <<>>],
  [year |-> TargetYear, contractId |-> <<"R","2">>, planId |-> <<"2">>,
   segmentId |-> <<"0","0","0">>, orgName |-> <<"B">>, marketingName |-> <<>>],
  [year |-> TargetYear, contractId |-> <<"H","(","1">>, planId |-> <<"3">>,
   segmentId |-> <<"0","0","0">>, orgName |-> <<"H","(","1">>, marketingName |-> <<>>] }

\* the plan lists of up to MaxPlans plans, none taken twice
RECURSIVE PlanListsOf(_)
PlanListsOf(n) ==
  IF n = 0 THEN {<<>>}
  ELSE LET shorter == PlanListsOf(n - 1)
       IN shorter \cup
          {Append(l, x) : l \in {m \in shorter : Len(m) = n - 1},
                          x \in PlanPool}

NoRepeat(l) == \A i, j \in 1..Len(l) : i # j => l[i] # l[j]

PlanLists == {l \in PlanListsOf(MaxPlans) : NoRepeat(l)}

UrlA == <<"a",".","P","D","F">>
UrlC == <<"c">>
Urls == {UrlA, UrlC}

\* what serpapi(q) may give: it throws, or returns these links
SearchOutcomes == {[ok |-> FALSE, urls |-> <<>>],
                   [ok |-> TRUE, urls |-> <<>>],
                   [ok |-> TRUE, urls |-> <<UrlC, UrlA>>]}

TextFull1 == <<"S","u","m","m","a","r","y"," ","o","f"," ","B","e","n","e","f","i","t","s",
               " ","2","0","2","5"," ","H","1","-","0","0","1">>
TextNoMarker1 == <<"2","0","2","5"," ","H","1"," ","0","0","1">>
TextFull2 == <<"S","U","M","M","A","R","Y"," "," ","O","F"," ","B","E","N","E","F","I","T","S",
               " ","2","0","2","5"," ","r","2","0","0","2">>

Resp(net, ctPdf, parses, text) ==
  [net |-> net, ctPdf |-> ctPdf, parses |-> parses, text |-> text]

\* what the host may answer for each URL
ResponsesA == {Resp("throw", FALSE, FALSE, <<>>),
               Resp("notok", TRUE, TRUE, TextFull1),
               Resp("ok", FALSE, TRUE, TextFull1),
               Resp("ok", TRUE, FALSE, <<>>),
               Resp("ok", TRUE, TRUE, TextNoMarker1),
               Resp("ok", TRUE, TRUE, TextFull2)}
ResponsesC == {Resp("ok", FALSE, TRUE, TextFull1),
               Resp("ok", TRUE, TRUE, TextFull1),
               Resp("ok", TRUE, TRUE, TextFull2),
               Resp("ok", TRUE, TRUE, <<>>)}

DocWorlds == {[u \in Urls |-> IF u = UrlA THEN a ELSE c] : a \in ResponsesA, c \in ResponsesC}

(***************************************************************************)
(* resolve_sb_urls.mjs : the run                                           *)
(***************************************************************************)
\* YEARS as TARGET_YEARS can give it: the default, two years in either order,
\* another year only, and none (no entry of TARGET_YEARS is a number).  The
\* main loop below is one iteration, that of the default YEARS.
TargetYearLists == {<<TargetYear>>, <<TargetYear, TargetYear + 1>>,
                    <<TargetYear + 1, TargetYear>>, <<TargetYear + 1>>, <<>>}

DiscInit ==
  /\ IngIdle
  /\ ExtIdle
  /\ TxtIdle
  /\ ZipIdle
  /\ TabIdle
  /\ NearIdle
  /\ dpc = "start"
  /\ serpKey \in BOOLEAN
  /\ conc \in Limits
  /\ byCountyPlans \in PlanLists
  /\ docs \in DocWorlds
  /\ plans = <<>>
  /\ task = <<>>
  /\ queue = <<>>
  /\ foundRows = <<>>
  /\ missing = <<>>
  /\ sourcesFile = [written |-> FALSE, rows |-> <<>>]
  /\ missingFile = [written |-> FALSE, plans |-> <<>>]
  /\ dyears \in (IF serpKey THEN {<<TargetYear>>} ELSE TargetYearLists)
  /\ autoOther = <<>>

\* the years the guard's loop `for (const y of YEARS)` writes the two files of,
\* were it to stop after its first turn
guardYearsFirstOnly(ys) == IF ys = <<>> THEN {} ELSE {ys[1]}

\* the years the guard's loop `for (const y of YEARS)` writes the two files of
guardYears(ys) == {ys[i] : i \in 1..Len(ys)}

\* SERPAPI_KEY is not set: for each of YEARS a header-only table and an empty
\* list, then exit(0)
NoKeyExit ==
  /\ dpc = "start"
  /\ ~serpKey
  /\ dpc' = "done"
  /\ sourcesFile' = IF TargetYear \in guardYears(dyears)
                      THEN [written |-> TRUE, rows |-> <<>>]
                      ELSE sourcesFile
  /\ missingFile' = IF TargetYear \in guardYears(dyears)
                      THEN [written |-> TRUE, plans |-> <<>>]
                      ELSE missingFile
  /\ autoOther' = [y \in guardYears(dyears) \ {TargetYear} |-> [rows |-> <<>>, plans |-> <<>>]]
  /\ UNCHANGED <<serpKey, dyears, conc, byCountyPlans, plans, docs, task, queue, foundRows, missing>>
  /\ UNCHANGED notDiscVars

\* collectPlansForYear(y)
\* the loop over the carriers' plans of the by-county files: an entry without
\* contractId or planId is skipped, the others are pushed with their defaults
RECURSIVE pushedPlans(_)
pushedPlans(scanned) ==
  IF scanned = <<>> THEN <<>>
  ELSE LET p == scanned[1]
       IN IF p.contractId = <<>> \/ p.planId = <<>> THEN pushedPlans(Tail(scanned))
          ELSE <<[year |-> p.year, contractId |-> p.contractId, planId |-> p.planId,
                  segmentId |-> IF p.segmentId = <<>> THEN <<"0","0","0">> ELSE p.segmentId,
                  orgName |-> IF p.orgName = <<>> THEN p.contractId ELSE p.orgName,
                  marketingName |-> p.marketingName]>> \o pushedPlans(Tail(scanned))

collectPlansForYear(scanned) == uniquePlans(pushedPlans(scanned))

\* a pool that starts every task at once
startCountUnbounded(n, c) == n

\* p-limit: of n tasks handed to limit() the first min(n, c) start at once
startCount(n, c) == IF n < c THEN n ELSE c

QueuedTask == [st |-> "queued", q |-> 0, c |-> 0, log |-> <<>>, url |-> <<>>]

\* resolveOne up to its first await: planRegex, buildQueries, serpapi(q1);
\* a pattern that does not compile makes the task reject
startedTask(p) ==
  IF planRegexCompiles(p.contractId, p.planId)
  THEN [QueuedTask EXCEPT !.st = "search", !.q = 1]
  ELSE [QueuedTask EXCEPT !.st = "threw"]

\* plans.map(p => limit(...)): the tasks are created and the pool starts the
\* first ones; a rejected task rejects Promise.all and the script dies
Launch ==
  /\ dpc = "start"
  /\ serpKey
  /\ LET ps == collectPlansForYear(byCountyPlans)
         n  == Len(ps)
         k  == startCount(n, conc)
         ts == [i \in 1..n |-> IF i <= k THEN startedTask(ps[i]) ELSE QueuedTask]
     IN /\ plans' = ps
        /\ task' = ts
        /\ queue' = [i \in 1..(n - k) |-> k + i]
        /\ dpc' = IF \E i \in 1..n : ts[i].st = "threw" THEN "crashed" ELSE "running"
  /\ UNCHANGED <<serpKey, dyears, autoOther, conc, byCountyPlans, docs, foundRows, missing, sourcesFile, missingFile>>
  /\ UNCHANGED notDiscVars

\* the next query of the task, or the end of resolveOne with null
nextQuery(p, t) ==
  IF t.q < Len(buildQueries(p))
  THEN [t EXCEPT !.st = "search", !.q = t.q + 1, !.c = 0]
  ELSE [t EXCEPT !.st = "miss", !.c = 0]

\* the candidates of the task's current query
candidatesOf(t) == pdfFirst(t.log[t.q])

\* the task after serpapi(q) answered
afterSearch(p, t, outcome) ==
  LET t1 == [t EXCEPT !.log = Append(t.log, outcome.urls)]
  IN IF candidatesOf(t1) = <<>> THEN nextQuery(p, t1)
     ELSE [t1 EXCEPT !.st = "fetch", !.c = 1]

\* the task after fetchPdfToText(url) answered for its current candidate
afterFetch(p, t) ==
  LET url == candidatesOf(t)[t.c]
  IN IF candidateVerifies(p, url, docs[url])
     THEN [t EXCEPT !.st = "found", !.url = url]
     ELSE IF t.c < Len(candidatesOf(t)) THEN [t EXCEPT !.c = t.c + 1]
     ELSE nextQuery(p, t)

csvRow(p, url) ==
  [cmsPlanKey |-> p.cmsPlanKey, orgName |-> p.orgName,
   marketingName |-> p.marketingName, url |-> url]

\* a task body that records every plan as missing, found or not
pushMissingAlways(arr, p, t) == IF t.st \in {"found", "miss"} THEN Append(arr, p) ELSE arr

\* the task body after resolveOne returned: rows.push or missing.push
pushFound(arr, p, t) == IF t.st = "found" THEN Append(arr, csvRow(p, t.url)) ELSE arr
pushMissing(arr, p, t) == IF t.st = "miss" THEN Append(arr, p) ELSE arr

\* a task that reports the plan at a shared completion counter
reportedPlanByCompletion(i, finished) == plans[finished + 1]

\* the plan a task reports: the one it closed over
reportedPlan(i, finished) == plans[i]

Finished(t) == t.st \in {"found", "miss"}

\* the continuation of task i, now in local state t2: when resolveOne has
\* returned the result is pushed and p-limit starts the next queued task
Continue(i, t2) ==
  IF ~Finished(t2)
  THEN /\ task' = [task EXCEPT ![i] = t2]
       /\ UNCHANGED <<dpc, queue, foundRows, missing>>
  ELSE
    LET p == reportedPlan(i, Len(foundRows) + Len(missing))
    IN /\ foundRows' = pushFound(foundRows, p, t2)
       /\ missing' = pushMissing(missing, p, t2)
       /\ IF queue = <<>>
          THEN /\ task' = [task EXCEPT ![i] = t2]
               /\ UNCHANGED <<dpc, queue>>
          ELSE LET j == Head(queue)
                   tj == startedTask(plans[j])
               IN /\ queue' = Tail(queue)
                  /\ task' = [task EXCEPT ![i] = t2, ![j] = tj]
                  /\ dpc' = IF tj.st = "threw" THEN "crashed" ELSE dpc

\* serpapi(q) settles for task i
SearchDone ==
  /\ dpc = "running"
  /\ \E i \in 1..Len(plans) :
       /\ task[i].st = "search"
       /\ \E outcome \in SearchOutcomes :
            Continue(i, afterSearch(plans[i], task[i], outcome))
  /\ UNCHANGED <<serpKey, dyears, autoOther, conc, byCountyPlans, plans, docs, sourcesFile, missingFile>>
  /\ UNCHANGED notDiscVars

\* fetchPdfToText(url) settles for task i
FetchDone ==
  /\ dpc = "running"
  /\ \E i \in 1..Len(plans) :
       /\ task[i].st = "fetch"
       /\ Continue(i, afterFetch(plans[i], task[i]))
  /\ UNCHANGED <<serpKey, dyears, autoOther, conc, byCountyPlans, plans, docs, sourcesFile, missingFile>>
  /\ UNCHANGED notDiscVars

\* the order of rows.sort() on the plan keys
CharCode(c) ==
  CASE c = "-" -> 45 [] c = "(" -> 40 [] c \in Digit -> 48 + DigitVal(c)
    [] c = "H" -> 72 [] c = "R" -> 82 [] OTHER -> 90

RECURSIVE KeyLess(_, _)
KeyLess(a, b) ==
  IF b = <<>> THEN FALSE
  ELSE IF a = <<>> THEN TRUE
  ELSE IF a[1] # b[1] THEN CharCode(a[1]) < CharCode(b[1])
  ELSE KeyLess(Tail(a), Tail(b))

RECURSIVE sortRows(_)
sortRows(s) ==
  IF Len(s) < 2 THEN s
  ELSE LET i == CHOOSE i \in 1..Len(s) :
                  \A j \in 1..Len(s) : j # i => ~KeyLess(s[j].cmsPlanKey, s[i].cmsPlanKey)
       IN <<s[i]>> \o sortRows(SubSeq(s, 1, i - 1) \o SubSeq(s, i + 1, Len(s)))

\* Promise.all(tasks) resolved: rows.sort(), both files are written
WriteOutputs ==
  /\ dpc = "running"
  /\ \A i \in 1..Len(plans) : Finished(task[i])
  /\ dpc' = "done"
  /\ sourcesFile' = [written |-> TRUE, rows |-> sortRows(foundRows)]
  /\ missingFile' = [written |-> TRUE, plans |-> missing]
  /\ UNCHANGED <<serpKey, dyears, autoOther, conc, byCountyPlans, plans, docs, task, queue, foundRows, missing>>
  /\ UNCHANGED notDiscVars

DiscNext == NoKeyExit \/ Launch \/ SearchDone \/ FetchDone \/ WriteOutputs

SpecDiscovery == DiscInit /\ [][DiscNext]_vars

(***************************************************************************)
(* resolve_sb_urls.mjs : collectPlansForYear on its own                    *)
(***************************************************************************)
\* the most plan entries scanned from the by-county files
MaxScanned == 3

\* plan entries as the by-county files hold them (orgName is the carrier's)
ScanPool == {
  [year |-> TargetYear, contractId |-> <<"h","2","4","5","8">>, planId |-> <<"2">>,
   segmentId |-> <<>>, orgName |-> <<"A">>, marketingName |-> <<"M">>],
  [year |-> TargetYear, contractId |-> <<"H","2","4","5","8">>, planId |-> <<"0","0","2">>,
   segmentId |-> <<"0","0","0">>, orgName |-> <<"Z">>, marketingName |-> <<>>],
  [year |-> TargetYear, contractId |-> <<"H","2","4","5","8">>, planId |-> <<"2">>,
   segmentId |-> <<"1">>, orgName |-> <<"B">>, marketingName |-> <<>>],
  [year |-> TargetYear, contractId |-> <<"R","2">>, planId |-> <<>>,
   segmentId |-> <<>>, orgName |-> <<"C">>, marketingName |-> <<>>],
  [year |-> TargetYear, contractId |-> <<"R","2">>, planId |-> <<"1","2">>,
   segmentId |-> <<"0">>, orgName |-> <<>>, marketingName |-> <<"N">>] }

RECURSIVE ScannedListsOf(_)
ScannedListsOf(n) ==
  IF n = 0 THEN {<<>>}
  ELSE LET shorter == ScannedListsOf(n - 1)
       IN shorter \cup {Append(l, x) : l \in {m \in shorter : Len(m) = n - 1}, x \in ScanPool}

CollectInit ==
  /\ IngIdle
  /\ ExtIdle
  /\ TxtIdle
  /\ ZipIdle
  /\ TabIdle
  /\ NearIdle
  /\ dpc = "scan"
  /\ serpKey = TRUE
  /\ conc = DefaultConcurrency
  /\ byCountyPlans \in ScannedListsOf(MaxScanned)
  /\ docs = <<>>
  /\ plans = <<>>
  /\ task = <<>>
  /\ queue = <<>>
  /\ foundRows = <<>>
  /\ missing = <<>>
  /\ sourcesFile = [written |-> FALSE, rows |-> <<>>]
  /\ missingFile = [written |-> FALSE, plans |-> <<>>]
  /\ dyears = <<TargetYear>>
  /\ autoOther = <<>>

\* const plans = await collectPlansForYear(y)
CollectPlans ==
  /\ dpc = "scan"
  /\ dpc' = "collected"
  /\ plans' = collectPlansForYear(byCountyPlans)
  /\ UNCHANGED <<serpKey, dyears, autoOther, conc, byCountyPlans, docs, task, queue, foundRows, missing,
                 sourcesFile, missingFile>>
  /\ UNCHANGED notDiscVars

CollectNext == CollectPlans

SpecCollect == CollectInit /\ [][CollectNext]_vars

(***************************************************************************)
(* build_ma_benefits.mjs : helpers                                         *)
(***************************************************************************)
\* pLimit(4)
ExtractLimit == 4

\* fetchPdf rejects a body shorter than this many bytes
MinPdfBytes == 1000

\* readText(p): the file's text, or "" when the read throws (the file is
\* missing, or `require` is not defined in the module's scope); a table is
\* modelled by its parsed rows and "" by the table without rows
readText(table) == IF requireOk THEN table ELSE <<>>

\* the loop body of readSourcesForYear over the rows of one file
RECURSIVE addSources(_, _, _)
addSources(out, y, table) ==
  IF table = <<>> THEN out
  ELSE LET r   == table[1]
           key == Trim(r.cmsPlanKey)
           url == Trim(r.url)
       IN addSources(
            IF key = <<>> \/ url = <<>> THEN out
            ELSE IF \E i \in 1..Len(out) : out[i].cmsPlanKey = key THEN out
            ELSE Append(out, [year |-> y, cmsPlanKey |-> key, orgName |-> r.orgName,
                              marketingName |-> r.marketingName, url |-> url]),
            y, Tail(table))

\* readSourcesForYear(y): the manual file first, then the automatic one
readSourcesForYear(y) ==
  addSources(addSources(<<>>, y, readText(manualTables[y])), y, readText(autoTables[y]))

\* for (const y of YEARS) allSources.push(...readSourcesForYear(y))
RECURSIVE sourcesOfYears(_)
sourcesOfYears(ys) ==
  IF ys = <<>> THEN <<>> ELSE readSourcesForYear(ys[1]) \o sourcesOfYears(Tail(ys))

\* fs.writeFile(by-plan/<key>.json): a key naming a directory that does not
\* exist makes the write fail
writeSucceeds(key) == ~Contains(key, <<"/">>)

\* fetchPdf(url) given the answer of the host: does it return a buffer
fetchPdfReturns(resp) == resp.net = "ok" /\ resp.bytes >= MinPdfBytes

\* the BenefitRecord written for a source (the extracted fields are left out)
benefitRecord(src) ==
  [cmsPlanKey |-> src.cmsPlanKey, sourcePdfUrl |-> src.url,
   planMeta |-> [orgName |-> src.orgName, marketingName |-> src.marketingName]]

\* an index that lists every result, failed ones too
goodResultsUnfiltered(ts) == [i \in 1..Len(ts) |-> i]

\* results.filter(Boolean): the indexes of the results that are records
goodResults(ts) ==
  LET Ok(i) == ts[i].st = "ok"
  IN SelectSeq([i \in 1..Len(ts) |-> i], Ok)

indexEntry(src) ==
  [cmsPlanKey |-> src.cmsPlanKey, orgName |-> src.orgName,
   marketingName |-> src.marketingName, sourcePdfUrl |-> src.url]

(***************************************************************************)
(* build_ma_benefits.mjs : the source tables and documents offered to a run *)
(***************************************************************************)
SrcRow(key, url) == [cmsPlanKey |-> key, orgName |-> <<"O">>, marketingName |-> <<>>, url |-> url]

K1 == <<"k","1">>
K2 == <<"k","2">>
K3 == <<"k","3">>
K4 == <<"k","4">>
KSlash == <<"k","/","5">>
U1 == <<"u","1">>
U2 == <<"u","2">>
XUrls == {U1, U2}

\* the manual and automatic tables of the first year, the automatic table of
\* the second year; <<>> is a missing file
ManualChoices == {<<>>,
                  <<SrcRow(K1, U1)>>,
                  <<SrcRow(K1, U2), SrcRow(K2, U1)>>,
                  <<SrcRow(<<" ","k","1"," ">>, <<" ","u","2">>), SrcRow(K1, U1)>>,
                  <<SrcRow(K1, <<" ">>), SrcRow(KSlash, U1)>>}
AutoChoices == {<<>>,
                <<SrcRow(K1, U1)>>,
                <<SrcRow(K2, U2), SrcRow(K1, U1)>>,
                <<SrcRow(<<>>, U1), SrcRow(K3, U2)>>}
NextYearChoices == {<<>>, <<SrcRow(K1, U2), SrcRow(K4, U1)>>}

YearLists == {<<TargetYear>>, <<TargetYear, TargetYear>>, <<TargetYear, TargetYear + 1>>}

XResp(net, bytes, parses) == [net |-> net, bytes |-> bytes, parses |-> parses]

XDocWorlds ==
  {[u \in XUrls |-> IF u = U1 THEN a ELSE b] :
     a \in {XResp("ok", MinPdfBytes, TRUE), XResp("notok", MinPdfBytes, TRUE),
            XResp("ok", MinPdfBytes - 1, TRUE)},
     b \in {XResp("ok", MinPdfBytes + 1, TRUE), XResp("throw", 0, FALSE),
            XResp("ok", MinPdfBytes, FALSE)}}

(***************************************************************************)
(* build_ma_benefits.mjs : the run                                         *)
(***************************************************************************)
ExtInit ==
  /\ IngIdle
  /\ DiscIdle
  /\ TxtIdle
  /\ ZipIdle
  /\ TabIdle
  /\ NearIdle
  /\ xpc = "start"
  /\ requireOk \in BOOLEAN
  /\ years \in YearLists
  /\ \E m \in ManualChoices :
       manualTables = [y \in {TargetYear, TargetYear + 1} |-> IF y = TargetYear THEN m ELSE <<>>]
  /\ \E a \in AutoChoices, b \in NextYearChoices :
       autoTables = [y \in {TargetYear, TargetYear + 1} |-> IF y = TargetYear THEN a ELSE b]
  /\ xdocs \in XDocWorlds
  /\ allSources = <<>>
  /\ xtask = <<>>
  /\ xqueue = <<>>
  /\ byPlanFiles = {}
  /\ planIndexFile = [written |-> FALSE, entries |-> <<>>]

XQueued == [st |-> "queued"]

\* the sources are read; without sources the empty index is written and the
\* script exits, otherwise the tasks are created and the pool starts the first
LoadSources ==
  /\ xpc = "start"
  /\ LET srcs == sourcesOfYears(years)
         n    == Len(srcs)
         k    == startCount(n, ExtractLimit)
     IN /\ allSources' = srcs
        /\ IF n = 0
           THEN /\ xpc' = "done"
                /\ planIndexFile' = [written |-> TRUE, entries |-> <<>>]
                /\ UNCHANGED <<xtask, xqueue>>
           ELSE /\ xpc' = "running"
                /\ xtask' = [i \in 1..n |-> IF i <= k THEN [st |-> "fetch"] ELSE XQueued]
                /\ xqueue' = [i \in 1..(n - k) |-> k + i]
                /\ UNCHANGED planIndexFile
  /\ UNCHANGED <<requireOk, years, manualTables, autoTables, xdocs, byPlanFiles>>
  /\ UNCHANGED notExtVars

XFinished(t) == t.st \in {"ok", "fail"}

\* task i moves to state st; when processOne has returned p-limit starts the
\* next queued task
XContinue(i, st) ==
  IF st \in {"ok", "fail"} /\ xqueue # <<>>
  THEN /\ xtask' = [xtask EXCEPT ![i] = [st |-> st], ![Head(xqueue)] = [st |-> "fetch"]]
       /\ xqueue' = Tail(xqueue)
  ELSE /\ xtask' = [xtask EXCEPT ![i] = [st |-> st]]
       /\ UNCHANGED xqueue

\* fetchPdf(url) settles for task i
XFetchDone ==
  /\ xpc = "running"
  /\ \E i \in 1..Len(allSources) :
       /\ xtask[i].st = "fetch"
       /\ XContinue(i, IF fetchPdfReturns(xdocs[allSources[i].url]) THEN "parse" ELSE "fail")
  /\ UNCHANGED <<xpc, requireOk, years, manualTables, autoTables, xdocs, allSources,
                 byPlanFiles, planIndexFile>>
  /\ UNCHANGED notExtVars

\* pdfBufferToText(buf) settles for task i; the extractors run on its text
XParseDone ==
  /\ xpc = "running"
  /\ \E i \in 1..Len(allSources) :
       /\ xtask[i].st = "parse"
       /\ XContinue(i, IF xdocs[allSources[i].url].parses THEN "write" ELSE "fail")
  /\ UNCHANGED <<xpc, requireOk, years, manualTables, autoTables, xdocs, allSources,
                 byPlanFiles, planIndexFile>>
  /\ UNCHANGED notExtVars

\* fs.writeFile(by-plan/<key>.json) settles for task i
XWriteDone ==
  /\ xpc = "running"
  /\ \E i \in 1..Len(allSources) :
       /\ xtask[i].st = "write"
       /\ IF writeSucceeds(allSources[i].cmsPlanKey)
          THEN /\ byPlanFiles' = {f \in byPlanFiles : f.cmsPlanKey # allSources[i].cmsPlanKey}
                                   \cup {benefitRecord(allSources[i])}
               /\ XContinue(i, "ok")
          ELSE /\ UNCHANGED byPlanFiles
               /\ XContinue(i, "fail")
  /\ UNCHANGED <<xpc, requireOk, years, manualTables, autoTables, xdocs, allSources,
                 planIndexFile>>
  /\ UNCHANGED notExtVars

\* Promise.all resolved: the plan index of the good results is written
WritePlanIndex ==
  /\ xpc = "running"
  /\ \A i \in 1..Len(allSources) : XFinished(xtask[i])
  /\ xpc' = "done"
  /\ planIndexFile' =
       [written |-> TRUE,
        entries |-> LET g == goodResults(xtask)
                    IN [j \in 1..Len(g) |-> indexEntry(allSources[g[j]])]]
  /\ UNCHANGED <<requireOk, years, manualTables, autoTables, xdocs, allSources, xtask,
                 xqueue, byPlanFiles>>
  /\ UNCHANGED notExtVars

ExtNext == LoadSources \/ XFetchDone \/ XParseDone \/ XWriteDone \/ WritePlanIndex

SpecExtract == ExtInit /\ [][ExtNext]_vars

\* the two pooled stages: a run of the discovery script or of the extraction script
PoolsInit == DiscInit \/ ExtInit

PoolsNext == NoKeyExit \/ Launch \/ SearchDone \/ FetchDone \/ WriteOutputs
               \/ LoadSources \/ XFetchDone \/ XParseDone \/ XWriteDone \/ WritePlanIndex

SpecPools == PoolsInit /\ [][PoolsNext]_vars

(***************************************************************************)
(* Claims about the Source Discovery Engine                                *)
(***************************************************************************)
InTable(p) == \E r \in 1..Len(sourcesFile.rows) : sourcesFile.rows[r].cmsPlanKey = p.cmsPlanKey
InMissing(p) == \E m \in 1..Len(missingFile.plans) : missingFile.plans[m].cmsPlanKey = p.cmsPlanKey

\* C3: when a discovery run completes, every distinct plan collected for the
\* year appears in exactly one of the source table and the unresolved list,
\* and neither holds anything else.
C3_ExactlyOneOfTableAndMissing ==
  dpc = "done" =>
    /\ \A i \in 1..Len(plans) : InTable(plans[i]) # InMissing(plans[i])
    /\ Len(sourcesFile.rows) + Len(missingFile.plans) = Len(plans)

\* C3 witness: a completed run with a resolved and an unresolved plan
C3_Witness ==
  /\ dpc = "done"
  /\ sourcesFile.rows # <<>>
  /\ missingFile.plans # <<>>

\* the text extracted from a URL matches the three patterns of plan p at once
MatchesAllThree(p, url) ==
  LET t == fetchPdfToText(url, docs[url])
  IN /\ t.kind = "text"
     /\ sobTest(t.text)
     /\ cpTest(t.text, p.contractId, p.planId)
     /\ yrTest(t.text, p.year)

\* the candidates task t has been given so far, query by query
CandidatesSeen(t) ==
  UNION {{pdfFirst(t.log[q])[c] : c \in 1..Len(pdfFirst(t.log[q]))} : q \in 1..Len(t.log)}

\* C4: resolveOne returns a URL only if the text extracted from that URL
\* matches the contract-plan pattern, the year and the 'summary of benefits'
\* marker at once; it returns absent only after every query was issued and no
\* candidate passed.
C4_ReturnsOnlyVerifiedUrl ==
  \A i \in 1..Len(task) :
    /\ task[i].st = "found" => MatchesAllThree(plans[i], task[i].url)
    /\ task[i].st = "miss" =>
         /\ Len(task[i].log) = Len(buildQueries(plans[i]))
         /\ \A u \in CandidatesSeen(task[i]) : ~MatchesAllThree(plans[i], u)

\* C4 witness: the first candidate held the contract-plan token and the year
\* but not the marker, and resolveOne returned the next candidate
C4_Witness ==
  \E i \in 1..Len(task) :
    /\ task[i].st = "found"
    /\ task[i].url = UrlC
    /\ docs[UrlA] = Resp("ok", TRUE, TRUE, TextNoMarker1)
    /\ cpTest(TextNoMarker1, plans[i].contractId, plans[i].planId)

\* C7: no failure raised while resolving one plan aborts the batch.
C7_BatchNeverAborted == dpc # "crashed"

(***************************************************************************)
(* Claims about the Benefit Extraction Engine and the two pools            *)
(***************************************************************************)
DiscInFlight == Cardinality({i \in 1..Len(task) : task[i].st \in {"search", "fetch"}})
ExtInFlight == Cardinality({i \in 1..Len(xtask) : xtask[i].st \in {"fetch", "parse", "write"}})

\* C5: at every moment at most N resolution tasks are in flight in discovery
\* (N the configured limit) and at most 4 document tasks in extraction.
C5_PoolsBounded ==
  /\ DiscInFlight <= conc
  /\ ExtInFlight <= 4

\* C5 witness: four document tasks in flight while a fifth waits
C5_Witness ==
  /\ ExtInFlight = 4
  /\ xqueue # <<>>

\* the result of a sequential resolveOne on the search results the task got
RefHits(p, t) ==
  {h \in UNION {{<<q, c>> : c \in 1..Len(pdfFirst(t.log[q]))} : q \in 1..Len(t.log)} :
     MatchesAllThree(p, pdfFirst(t.log[h[1]])[h[2]])}

RefUrl(p, t) ==
  LET h == CHOOSE h \in RefHits(p, t) :
             \A g \in RefHits(p, t) : h[1] < g[1] \/ (h[1] = g[1] /\ h[2] <= g[2])
  IN pdfFirst(t.log[h[1]])[h[2]]

\* does a source succeed, judged from the answers of the host and its key
RefSourceOk(src) ==
  /\ xdocs[src.url].net = "ok"
  /\ xdocs[src.url].bytes >= 1000
  /\ xdocs[src.url].parses
  /\ ~Contains(src.cmsPlanKey, <<"/">>)

\* C6: given the same plans and the same answers of the external services,
\* the plans that succeed and the plans that fail are the same for every
\* interleaving: they are those a sequential run would give.
C6_OutcomeIndependentOfInterleaving ==
  /\ (dpc = "done" /\ serpKey) =>
       /\ {<<sourcesFile.rows[r].cmsPlanKey, sourcesFile.rows[r].url>> :
             r \in 1..Len(sourcesFile.rows)}
            = {<<plans[i].cmsPlanKey, RefUrl(plans[i], task[i])>> :
                 i \in {j \in 1..Len(plans) : RefHits(plans[j], task[j]) # {}}}
       /\ {missingFile.plans[m].cmsPlanKey : m \in 1..Len(missingFile.plans)}
            = {plans[i].cmsPlanKey :
                 i \in {j \in 1..Len(plans) : RefHits(plans[j], task[j]) = {}}}
  /\ xpc = "done" =>
       {<<planIndexFile.entries[e].cmsPlanKey, planIndexFile.entries[e].sourcePdfUrl>> :
          e \in 1..Len(planIndexFile.entries)}
         = {<<allSources[i].cmsPlanKey, allSources[i].url>> :
              i \in {j \in 1..Len(allSources) : RefSourceOk(allSources[j])}}

\* C6 witness: a discovery run completed whose second task finished first
C6_Witness ==
  /\ dpc = "done"
  /\ Len(plans) = 2
  /\ Len(missing) = 1
  /\ Len(foundRows) = 1
  /\ missing[1] = plans[2]
  /\ task[2].log = <<<<>>, <<>>>>

\* C8: a plan whose fetch, size check, text extraction or artifact write fails
\* is skipped without affecting any other plan; the plan index written at the
\* end lists exactly the plans processed with success, each with its artifact.
C8_IndexListsExactlySucceeded ==
  xpc = "done" =>
    /\ \A i \in 1..Len(xtask) : (xtask[i].st = "ok") = RefSourceOk(allSources[i])
    /\ planIndexFile.written
    /\ planIndexFile.entries =
         LET Ok(i) == xtask[i].st = "ok"
             g == SelectSeq([i \in 1..Len(xtask) |-> i], Ok)
         IN [j \in 1..Len(g) |-> indexEntry(allSources[g[j]])]
    /\ \A e \in 1..Len(planIndexFile.entries) :
         \E f \in byPlanFiles : f.cmsPlanKey = planIndexFile.entries[e].cmsPlanKey

\* C8 witness: a completed run in which one plan failed and a later one succeeded
C8_Witness ==
  /\ xpc = "done"
  /\ \E i, j \in 1..Len(xtask) : i < j /\ xtask[i].st = "fail" /\ xtask[j].st = "ok"
  /\ planIndexFile.entries # <<>>

ValidSrcRow(r) == Trim(r.cmsPlanKey) # <<>> /\ Trim(r.url) # <<>>

RowsOf(table) == {table[i] : i \in 1..Len(table)}

YearsRun == {years[i] : i \in 1..Len(years)}

\* C9: the source list holds at most one SourceRecord per cmsPlanKey, for
\* every combination of tables and every target-year list; a key present in
\* the manual and the automatic table keeps the manual record; every key with
\* a non-empty url in either table is retained.
C9_OneRecordPerKey ==
  xpc # "start" =>
    /\ \A i, j \in 1..Len(allSources) :
         allSources[i].cmsPlanKey = allSources[j].cmsPlanKey => i = j
    /\ \A y \in YearsRun :
         \A r \in {x \in RowsOf(manualTables[y]) \cup RowsOf(autoTables[y]) : ValidSrcRow(x)} :
           \E i \in 1..Len(allSources) : allSources[i].cmsPlanKey = Trim(r.cmsPlanKey)
    /\ \A y \in YearsRun :
         \A i \in 1..Len(allSources) :
           (/\ allSources[i].year = y
            /\ \E r \in RowsOf(manualTables[y]) :
                 ValidSrcRow(r) /\ Trim(r.cmsPlanKey) = allSources[i].cmsPlanKey)
             => \E r \in RowsOf(manualTables[y]) :
                  /\ ValidSrcRow(r)
                  /\ Trim(r.cmsPlanKey) = allSources[i].cmsPlanKey
                  /\ Trim(r.url) = allSources[i].url

(***************************************************************************)
(* build_ma_benefits.mjs : text helpers and extractors                     *)
(***************************************************************************)
LowerLetters == {"a","b","c","d","e","f","g","h","i","j","k","l","m","n","o","p","q","r",
                 "s","t","u","v","w","x","y","z"}

\* does some literal of the set occur in s
ContainsAny(s, literals) == \E l \in literals : Contains(s, l)

NotBlank(l) == l # <<>>

\* normalize(txt): per line, runs of blanks collapse and the ends are trimmed;
\* blank lines are discarded; the lowercased lines are kept beside the cased
normalize(t) ==
  LET ls == SelectSeq([i \in 1..Len(t) |-> Trim(CollapseSpaces(t[i]))], NotBlank)
  IN [lines |-> ls, lower |-> [i \in 1..Len(ls) |-> ToLowerCase(ls[i])]]

\* lines.slice(a, b).join(" ") for 0-based a (inclusive) and b (exclusive)
RECURSIVE JoinLines(_, _, _)
JoinLines(ls, a, b) ==
  IF a >= b THEN <<>>
  ELSE IF a + 1 = b THEN ls[a + 1]
  ELSE ls[a + 1] \o <<" ">> \o JoinLines(ls, a + 1, b)

Max(a, b) == IF a > b THEN a ELSE b

\* /no charge|\$0|zero|covered/
PositivePattern(s) ==
  ContainsAny(s, { <<"n","o"," ","c","h","a","r","g","e">>, <<"$","0">>,
                   <<"z","e","r","o">>, <<"c","o","v","e","r","e","d">> })

\* /not covered|no coverage/
NegativePattern(s) ==
  ContainsAny(s, { <<"n","o","t"," ","c","o","v","e","r","e","d">>,
                   <<"n","o"," ","c","o","v","e","r","a","g","e">> })

\* hasCoveredWord(hit): "true", "false" or "null"
hasCoveredWord(hit) ==
  IF ~hit.found THEN "null"
  ELSE LET s == ToLowerCase(hit.text)
       IN IF PositivePattern(s) THEN "true"
          ELSE IF NegativePattern(s) THEN "false"
          ELSE "null"

\* /(medical )?nutrition therapy|[^a-z]mnt[^a-z]/i
MntPattern(l) ==
  \/ Contains(l, <<"n","u","t","r","i","t","i","o","n"," ","t","h","e","r","a","p","y">>)
  \/ \E i \in 1..(Len(l) - 4) :
       /\ l[i] \notin LowerLetters
       /\ MatchAt(l, <<"m","n","t">>, i + 1)
       /\ l[i + 4] \notin LowerLetters

\* /obesity (counseling|therapy)|ibt|intensive behavioral/i
ObesityPattern(l) ==
  ContainsAny(l, { <<"o","b","e","s","i","t","y"," ","c","o","u","n","s","e","l","i","n","g">>,
                   <<"o","b","e","s","i","t","y"," ","t","h","e","r","a","p","y">>,
                   <<"i","b","t">>,
                   <<"i","n","t","e","n","s","i","v","e"," ","b","e","h","a","v","i","o","r","a","l">> })

\* /dietitian|registered dietitian|rdn/i
DietitianPattern(l) ==
  ContainsAny(l, { <<"d","i","e","t","i","t","i","a","n">>, <<"r","d","n">> })

\* /visit limit|visits per year|maximum visits|limits/i
VisitLimitPattern(l) ==
  ContainsAny(l, { <<"v","i","s","i","t"," ","l","i","m","i","t">>,
                   <<"v","i","s","i","t","s"," ","p","e","r"," ","y","e","a","r">>,
                   <<"m","a","x","i","m","u","m"," ","v","i","s","i","t","s">>,
                   <<"l","i","m","i","t","s">> })

\* /(primary care|pcp)[^$%]*\b(visit|office|telehealth)?/ : the tail can match
\* nothing and a word boundary follows the label or the word it begins
PcpPattern(l) == ContainsAny(l, { <<"p","r","i","m","a","r","y"," ","c","a","r","e">>,
                           <<"p","c","p">> })

\* /(specialist)[^$%]*\b(visit|office|telehealth)?/
SpecialistPattern(l) == Contains(l, <<"s","p","e","c","i","a","l","i","s","t">>)

\* /telehealth|virtual visit|virtual care/
TelehealthPattern(l) == ContainsAny(l, { <<"t","e","l","e","h","e","a","l","t","h">>,
                                  <<"v","i","r","t","u","a","l"," ","v","i","s","i","t">>,
                                  <<"v","i","r","t","u","a","l"," ","c","a","r","e">> })

\* /referral required/ and /no referral/
ReferralPattern(l) == Contains(l, <<"r","e","f","e","r","r","a","l"," ","r","e","q","u","i","r","e","d">>)
NoReferralPattern(l) == Contains(l, <<"n","o"," ","r","e","f","e","r","r","a","l">>)

\* /(over[- ]?the[- ]?counter|[^a-z]otc[^a-z]|otc allowance|otc benefit)/i
OtcPattern(l) ==
  \/ ContainsAny(l, { <<"o","v","e","r","t","h","e","c","o","u","n","t","e","r">>,
                    <<"o","v","e","r","t","h","e","-","c","o","u","n","t","e","r">>,
                    <<"o","v","e","r","t","h","e"," ","c","o","u","n","t","e","r">>,
                    <<"o","v","e","r","-","t","h","e","c","o","u","n","t","e","r">>,
                    <<"o","v","e","r","-","t","h","e","-","c","o","u","n","t","e","r">>,
                    <<"o","v","e","r","-","t","h","e"," ","c","o","u","n","t","e","r">>,
                    <<"o","v","e","r"," ","t","h","e","c","o","u","n","t","e","r">>,
                    <<"o","v","e","r"," ","t","h","e","-","c","o","u","n","t","e","r">>,
                    <<"o","v","e","r"," ","t","h","e"," ","c","o","u","n","t","e","r">>,
                    <<"o","t","c"," ","a","l","l","o","w","a","n","c","e">>,
                    <<"o","t","c"," ","b","e","n","e","f","i","t">> })
  \/ \E i \in 1..(Len(l) - 4) :
       /\ l[i] \notin LowerLetters
       /\ MatchAt(l, <<"o","t","c">>, i + 1)
       /\ l[i + 4] \notin LowerLetters

\* /(healthy (foods?|food) (card|allowance)|grocery|food benefit)/i
FoodPattern(l) == ContainsAny(l, { <<"h","e","a","l","t","h","y"," ","f","o","o","d"," ","c","a","r","d">>,
                            <<"h","e","a","l","t","h","y"," ","f","o","o","d"," ","a","l","l","o","w","a","n","c","e">>,
                            <<"h","e","a","l","t","h","y"," ","f","o","o","d","s"," ","c","a","r","d">>,
                            <<"h","e","a","l","t","h","y"," ","f","o","o","d","s"," ","a","l","l","o","w","a","n","c","e">>,
                            <<"g","r","o","c","e","r","y">>,
                            <<"f","o","o","d"," ","b","e","n","e","f","i","t">> })

\* /(post[- ]?discharge|transitional|after hospital)/i
PostDischargePattern(l) == ContainsAny(l, { <<"p","o","s","t","d","i","s","c","h","a","r","g","e">>,
                                     <<"p","o","s","t","-","d","i","s","c","h","a","r","g","e">>,
                                     <<"p","o","s","t"," ","d","i","s","c","h","a","r","g","e">>,
                                     <<"t","r","a","n","s","i","t","i","o","n","a","l">>,
                                     <<"a","f","t","e","r"," ","h","o","s","p","i","t","a","l">> })

\* /(chronic|condition|recurring)/i
ChronicPattern(l) == ContainsAny(l, { <<"c","h","r","o","n","i","c">>,
                               <<"c","o","n","d","i","t","i","o","n">>,
                               <<"r","e","c","u","r","r","i","n","g">> })

\* /SilverSneakers|Renew Active|Silver ?& ?Fit|One Pass|Active ?& ?Fit/i
ProgramNames == { <<"s","i","l","v","e","r","s","n","e","a","k","e","r","s">>,
                <<"r","e","n","e","w"," ","a","c","t","i","v","e">>,
                <<"o","n","e"," ","p","a","s","s">>,
                <<"s","i","l","v","e","r","&","f","i","t">>,
                <<"s","i","l","v","e","r","&"," ","f","i","t">>,
                <<"s","i","l","v","e","r"," ","&","f","i","t">>,
                <<"s","i","l","v","e","r"," ","&"," ","f","i","t">>,
                <<"a","c","t","i","v","e","&","f","i","t">>,
                <<"a","c","t","i","v","e","&"," ","f","i","t">>,
                <<"a","c","t","i","v","e"," ","&","f","i","t">>,
                <<"a","c","t","i","v","e"," ","&"," ","f","i","t">> }

\* /(silversneakers|renew active|silver ?& ?fit|one pass|active ?& ?fit|gym)/i
FitnessPattern(l) == ContainsAny(l, ProgramNames \cup {<<"g","y","m">>})

\* /(transportation|rides)/i
TransportPattern(l) == ContainsAny(l, { <<"t","r","a","n","s","p","o","r","t","a","t","i","o","n">>,
                                 <<"r","i","d","e","s">> })

\* pattern.test(l) for the patterns the extractors search lines with
PatternTest(pattern, l) ==
  CASE pattern = "mnt" -> MntPattern(l)
    [] pattern = "obesity" -> ObesityPattern(l)
    [] pattern = "dietitian" -> DietitianPattern(l)
    [] pattern = "visitLimits" -> VisitLimitPattern(l)
    [] pattern = "pcp" -> PcpPattern(l)
    [] pattern = "specialist" -> SpecialistPattern(l)
    [] pattern = "telehealth" -> TelehealthPattern(l)
    [] pattern = "referral" -> ReferralPattern(l)
    [] pattern = "noReferral" -> NoReferralPattern(l)
    [] pattern = "otc" -> OtcPattern(l)
    [] pattern = "food" -> FoodPattern(l)
    [] pattern = "postDischarge" -> PostDischargePattern(l)
    [] pattern = "chronic" -> ChronicPattern(l)
    [] pattern = "fitness" -> FitnessPattern(l)
    [] pattern = "transport" -> TransportPattern(l)

\* a window around the last matching line
findNearbyLast(n, pattern, radius) ==
  IF \E i \in 1..Len(n.lower) : PatternTest(pattern, n.lower[i])
  THEN LET i == CHOOSE i \in 1..Len(n.lower) :
                  /\ PatternTest(pattern, n.lower[i])
                  /\ \A j \in (i + 1)..Len(n.lower) : ~PatternTest(pattern, n.lower[j])
       IN [found |-> TRUE,
           text  |-> JoinLines(n.lines, Max(0, (i - 1) - radius),
                               Min(Len(n.lines), (i - 1) + radius + 1))]
  ELSE [found |-> FALSE, text |-> <<>>]

\* findNearby(n, pattern, radius): the window around the first matching line
findNearby(n, pattern, radius) ==
  IF \E i \in 1..Len(n.lower) : PatternTest(pattern, n.lower[i])
  THEN LET i == CHOOSE i \in 1..Len(n.lower) :
                  /\ PatternTest(pattern, n.lower[i])
                  /\ \A j \in 1..(i - 1) : ~PatternTest(pattern, n.lower[j])
       IN [found |-> TRUE,
           text  |-> JoinLines(n.lines, Max(0, (i - 1) - radius),
                               Min(Len(n.lines), (i - 1) + radius + 1))]
  ELSE [found |-> FALSE, text |-> <<>>]

\* the radius findNearby takes when none is given
DefaultRadius == 4

\* extractNutrition(n); a text that is null is the empty text (a snippet holds
\* the matching line, which is not blank, so it is never empty itself)
extractNutrition(n) ==
  LET mntLine       == findNearby(n, "mnt", DefaultRadius)
      obesityLine   == findNearby(n, "obesity", DefaultRadius)
      dietitianLine == findNearby(n, "dietitian", DefaultRadius)
  IN [mntCovered               |-> hasCoveredWord(mntLine),
      mntText                  |-> mntLine.text,
      obesityCounselingCovered |-> hasCoveredWord(obesityLine),
      obesityCounselingText    |-> obesityLine.text,
      dietitianCopayText       |-> dietitianLine.text,
      visitLimitsText          |-> findNearby(n, "visitLimits", DefaultRadius).text]

\* the end of (?:,\d{3})* started at q: the offset after the last group
RECURSIVE GroupsEnd(_, _)
GroupsEnd(s, q) ==
  IF q <= Len(s) /\ s[q] = "," /\ DigitRunAt(s, 3, q + 1) THEN GroupsEnd(s, q + 4) ELSE q

\* the offset of the first digit of /\$ ?(\d{1,3}.../ tried at the "$" at i
MoneyDigitsAt(s, i) == IF i + 1 <= Len(s) /\ s[i + 1] = " " THEN i + 2 ELSE i + 1

MoneyMatchAt(s, i) == s[i] = "$" /\ DigitRunAt(s, 1, MoneyDigitsAt(s, i))

\* moneyFrom(s): /\$ ?(\d{1,3}(?:,\d{3})*)(?:\.(\d{2}))?/ ; the amount is kept
\* in cents so that it stays an integer; <<>> is null
moneyFrom(s) ==
  IF \E i \in 1..Len(s) : MoneyMatchAt(s, i)
  THEN LET i == CHOOSE i \in 1..Len(s) :
                  MoneyMatchAt(s, i) /\ \A j \in 1..(i - 1) : ~MoneyMatchAt(s, j)
           p == MoneyDigitsAt(s, i)
           k == IF DigitRunAt(s, 3, p) THEN 3 ELSE IF DigitRunAt(s, 2, p) THEN 2 ELSE 1
           q == GroupsEnd(s, p + k)
           whole == NumberOf(StripNonDigits(SubSeq(s, p, q - 1)))
           cents == IF q <= Len(s) /\ s[q] = "." /\ DigitRunAt(s, 2, q + 1)
                    THEN NumberOf(SubSeq(s, q + 1, q + 2)) ELSE 0
       IN <<100 * whole + cents>>
  ELSE <<>>

\* periodFrom(s); <<>> is null
periodFrom(s) ==
  LET l == ToLowerCase(s)
  IN IF ContainsAny(l, { <<"p","e","r"," ","m","o","n","t","h">>,
                        <<"m","o","n","t","h","l","y">>,
                        <<"e","a","c","h"," ","m","o","n","t","h">> }) THEN <<"month">>
     ELSE IF ContainsAny(l, { <<"p","e","r"," ","q","u","a","r","t","e","r">>,
                             <<"q","u","a","r","t","e","r","l","y">>,
                             <<"e","v","e","r","y"," ","3"," ","m","o","n","t","h","s">> }) THEN <<"quarter">>
     ELSE IF ContainsAny(l, { <<"p","e","r"," ","y","e","a","r">>,
                             <<"a","n","n","u","a","l","l","y">>,
                             <<"e","a","c","h"," ","y","e","a","r">> }) THEN <<"year">>
     ELSE IF ContainsAny(l, { <<"p","e","r"," ","w","e","e","k">>,
                             <<"w","e","e","k","l","y">> }) THEN <<"week">>
     ELSE <<>>

\* extractMoneyWithPeriod(n, pattern); <<>> is null
extractMoneyWithPeriod(n, pattern) ==
  LET hit == findNearby(n, pattern, 6)
  IN IF ~hit.found THEN <<>>
     ELSE <<[amount |-> moneyFrom(hit.text), period |-> periodFrom(hit.text), text |-> hit.text]>>

\* findLineValue(n, pattern); <<>> is null
findLineValue(n, pattern) ==
  IF \E i \in 1..Len(n.lower) : PatternTest(pattern, n.lower[i])
  THEN LET i == CHOOSE i \in 1..Len(n.lower) :
                  /\ PatternTest(pattern, n.lower[i])
                  /\ \A j \in 1..(i - 1) : ~PatternTest(pattern, n.lower[j])
       IN <<[text |-> n.lines[i], amount |-> moneyFrom(n.lines[i])]>>
  ELSE <<>>

\* n.lower.some(l => pattern.test(l))
SomeLine(n, pattern) == \E i \in 1..Len(n.lower) : PatternTest(pattern, n.lower[i])

\* extractMedical(n); a null text or amount is <<>>, a boolean b is <<b>>
extractMedical(n) ==
  LET pcp      == findLineValue(n, "pcp")
      spec     == findLineValue(n, "specialist")
      tele     == SomeLine(n, "telehealth")
      referral == SomeLine(n, "referral") /\ ~SomeLine(n, "noReferral")
  IN [primaryCareCopayText |-> IF pcp = <<>> THEN <<>> ELSE pcp[1].text,
      primaryCareCopay     |-> IF pcp = <<>> THEN <<>> ELSE pcp[1].amount,
      specialistCopayText  |-> IF spec = <<>> THEN <<>> ELSE spec[1].text,
      specialistCopay      |-> IF spec = <<>> THEN <<>> ELSE spec[1].amount,
      telehealthPrimary    |-> IF tele THEN <<TRUE>> ELSE <<>>,
      referralRequired     |-> IF referral THEN <<TRUE>> ELSE <<FALSE>>]

\* the offset after \s* started at q
RECURSIVE SkipSpaces(_, _)
SkipSpaces(s, q) == IF q <= Len(s) /\ IsSpace(s[q]) THEN SkipSpaces(s, q + 1) ELSE q

\* /(\d{k})\s*(word)/i tried at i, for the words of a set
CountMatchAt(s, i, k, words) ==
  /\ DigitRunAt(s, k, i)
  /\ \E w \in words : MatchAt(ToLowerCase(s), w, SkipSpaces(s, i + k))

\* Number(m[1]) for the match of /(\d{1,3})\s*(word)/i in s; <<>> when none
countBefore(s, words) ==
  IF \E i \in 1..Len(s), k \in 1..3 : CountMatchAt(s, i, k, words)
  THEN LET i == CHOOSE i \in 1..Len(s) :
                  /\ \E k \in 1..3 : CountMatchAt(s, i, k, words)
                  /\ \A j \in 1..(i - 1), k \in 1..3 : ~CountMatchAt(s, j, k, words)
           k == CHOOSE k \in 1..3 :
                  /\ CountMatchAt(s, i, k, words)
                  /\ \A k2 \in (k + 1)..3 : ~CountMatchAt(s, i, k2, words)
       IN <<NumberOf(SubSeq(s, i, i + k - 1))>>
  ELSE <<>>

\* extractMeals(n, pattern); <<>> is null
extractMeals(n, pattern) ==
  LET hit == findNearby(n, pattern, 5)
      l   == ToLowerCase(hit.text)
      ep  == IF ContainsAny(l, { <<"p","e","r"," ","e","p","i","s","o","d","e">>,
                                 <<"p","e","r"," ","d","i","s","c","h","a","r","g","e">>,
                                 <<"p","e","r"," ","s","t","a","y">>,
                                 <<"p","e","r"," ","h","o","s","p","i","t","a","l","i","z","a","t","i","o","n">> })
             THEN <<"episode">> ELSE <<>>
      per == IF ContainsAny(l, { <<"p","e","r"," ","m","o","n","t","h">>,
                                 <<"m","o","n","t","h","l","y">> }) THEN <<"month">> ELSE ep
  IN IF ~hit.found THEN <<>>
     ELSE <<[meals |-> countBefore(hit.text, {<<"m","e","a","l">>}), period |-> per, text |-> hit.text]>>

\* findProgram(n, pattern); <<>> is null
findProgram(n, pattern) ==
  LET hit == findNearby(n, pattern, 3)
      l   == ToLowerCase(hit.text)
      Named(i) == \E w \in ProgramNames : MatchAt(l, w, i)
      name == IF \E i \in 1..Len(l) : Named(i)
              THEN LET i == CHOOSE i \in 1..Len(l) : Named(i) /\ \A j \in 1..(i - 1) : ~Named(j)
                       w == CHOOSE w \in ProgramNames : MatchAt(l, w, i)
                   IN SubSeq(hit.text, i, i + Len(w) - 1)
              ELSE <<>>
  IN IF ~hit.found THEN <<>> ELSE <<[program |-> name, text |-> hit.text]>>

\* /(\d{1,3})\s*(?:one[- ]way )?(?:trips|rides)/i
TripWords == { <<"t","r","i","p","s">>,
             <<"r","i","d","e","s">>,
             <<"o","n","e","-","w","a","y"," ","t","r","i","p","s">>,
             <<"o","n","e","-","w","a","y"," ","r","i","d","e","s">>,
             <<"o","n","e"," ","w","a","y"," ","t","r","i","p","s">>,
             <<"o","n","e"," ","w","a","y"," ","r","i","d","e","s">> }

\* extractTrips(n, pattern); <<>> is null
extractTrips(n, pattern) ==
  LET hit == findNearby(n, pattern, 4)
      per == periodFrom(hit.text)
  IN IF ~hit.found THEN <<>>
     ELSE <<[trips |-> countBefore(hit.text, TripWords),
             period |-> IF per = <<>> THEN <<"year">> ELSE per, text |-> hit.text]>>

\* extractSupplemental(n)
extractSupplemental(n) ==
  [otcAllowance       |-> extractMoneyWithPeriod(n, "otc"),
   healthyFoodCard    |-> extractMoneyWithPeriod(n, "food"),
   postDischargeMeals |-> extractMeals(n, "postDischarge"),
   chronicMeals       |-> extractMeals(n, "chronic"),
   fitness            |-> findProgram(n, "fitness"),
   transportation     |-> extractTrips(n, "transport")]

(***************************************************************************)
(* build_ma_benefits.mjs : the documents offered to the extractors         *)
(***************************************************************************)
\* the most lines of a document
MaxLines == 3

LinePool == {
  <<"N","u","t","r","i","t","i","o","n"," "," ","T","h","e","r","a","p","y">>,
  <<"(","M","N","T",")">>,
  <<"N","o","t"," ","c","o","v","e","r","e","d">>,
  <<"n","o"," ","c","o","v","e","r","a","g","e">>,
  <<"$","0">>,
  <<"Z","e","r","o">>,
  <<"n","o"," ","c","h","a","r","g","e">>,
  <<"C","o","v","e","r","e","d">>,
  <<"c","o","p","a","y">>,
  <<" "," ">> }

\* lines that carry the labels of the medical and supplemental fields
FieldLinePool == { <<"P","C","P"," ","v","i","s","i","t"," ","$","1","0"," ","c","o","p","a","y">>,
                 <<"S","p","e","c","i","a","l","i","s","t"," ","$","1",",","2","5","0",".","5","0">>,
                 <<"T","e","l","e","h","e","a","l","t","h">>,
                 <<"R","e","f","e","r","r","a","l"," ","r","e","q","u","i","r","e","d">>,
                 <<"N","o"," ","r","e","f","e","r","r","a","l">>,
                 <<"O","T","C"," ","a","l","l","o","w","a","n","c","e"," ","$"," ","5","0"," ","p","e","r"," ","q","u","a","r","t","e","r">>,
                 <<"G","r","o","c","e","r","y">>,
                 <<"P","o","s","t","-","d","i","s","c","h","a","r","g","e"," ","1","4"," ","m","e","a","l","s"," ","p","e","r"," ","s","t","a","y">>,
                 <<"C","h","r","o","n","i","c"," ","1","2","3","4"," ","m","e","a","l","s"," ","m","o","n","t","h","l","y">>,
                 <<"S","i","l","v","e","r","S","n","e","a","k","e","r","s"," ","g","y","m">>,
                 <<"G","y","m">>,
                 <<"T","r","a","n","s","p","o","r","t","a","t","i","o","n"," ","2","4"," ","o","n","e","-","w","a","y"," ","t","r","i","p","s">>,
                 <<"R","i","d","e","s"," ","w","e","e","k","l","y">>,
                 <<"c","o","p","a","y">> }

\* the most lines of a document made of such lines
MaxFieldLines == 2

RECURSIVE TextsFrom(_, _)
TextsFrom(pool, n) ==
  IF n = 0 THEN {<<>>}
  ELSE LET shorter == TextsFrom(pool, n - 1)
       IN shorter \cup {Append(t, l) : t \in {u \in shorter : Len(u) = n - 1}, l \in pool}

RECURSIVE TextsOf(_)
TextsOf(n) ==
  IF n = 0 THEN {<<>>}
  ELSE LET shorter == TextsOf(n - 1)
       IN shorter \cup {Append(t, l) : t \in {u \in shorter : Len(u) = n - 1}, l \in LinePool}

TxtInit ==
  /\ IngIdle
  /\ DiscIdle
  /\ ExtIdle
  /\ ZipIdle
  /\ TabIdle
  /\ NearIdle
  /\ npc = "text"
  /\ txt \in TextsOf(MaxLines) \cup TextsFrom(FieldLinePool, MaxFieldLines)
  /\ nutrition = <<>>
  /\ medical = <<>>
  /\ supplemental = <<>>

\* const normalized = normalize(text); then the three extractors on it
Extract ==
  /\ npc = "text"
  /\ npc' = "done"
  /\ medical' = extractMedical(normalize(txt))
  /\ nutrition' = extractNutrition(normalize(txt))
  /\ supplemental' = extractSupplemental(normalize(txt))
  /\ UNCHANGED txt
  /\ UNCHANGED notTxtVars

TxtNext == Extract

SpecExtractors == TxtInit /\ [][TxtNext]_vars

(***************************************************************************)
(* Claims about the extractors                                             *)
(***************************************************************************)
SaysNegative(s) ==
  \/ Contains(s, <<"n","o","t"," ","c","o","v","e","r","e","d">>)
  \/ Contains(s, <<"n","o"," ","c","o","v","e","r","a","g","e">>)

SaysSeparatePositive(s) ==
  \/ Contains(s, <<"n","o"," ","c","h","a","r","g","e">>)
  \/ Contains(s, <<"$","0">>)
  \/ Contains(s, <<"z","e","r","o">>)

SaysCovered(s) == Contains(s, <<"c","o","v","e","r","e","d">>)

\* C10: hasCoveredWord is tri-state: false for a snippet in which 'not
\* covered' or 'no coverage' appears and no separate positive phrase, true
\* for a snippet with 'no charge', '$0', 'zero' or 'covered' and no negative
\* phrase, null when neither kind of phrase appears or the snippet is absent.
C10_CoveredIsTriState ==
  npc = "done" =>
    LET s == ToLowerCase(nutrition.mntText)
        absent == nutrition.mntText = <<>>
    IN /\ absent => nutrition.mntCovered = "null"
       /\ (~absent /\ SaysNegative(s) /\ ~SaysSeparatePositive(s))
            => nutrition.mntCovered = "false"
       /\ (~absent /\ ~SaysNegative(s) /\ (SaysSeparatePositive(s) \/ SaysCovered(s)))
            => nutrition.mntCovered = "true"
       /\ (~absent /\ ~SaysNegative(s) /\ ~SaysSeparatePositive(s) /\ ~SaysCovered(s))
            => nutrition.mntCovered = "null"

AbsentIn(pattern) ==
  LET n == normalize(txt) IN \A i \in 1..Len(n.lower) : ~PatternTest(pattern, n.lower[i])

\* C11: a field whose pattern matches no line of the document is present in
\* the record with the value null, for every field of medical, nutrition and
\* supplemental, telehealthPrimary and referralRequired included.
C11_AbsentFieldsAreNull ==
  npc = "done" =>
    /\ AbsentIn("pcp") => medical.primaryCareCopayText = <<>> /\ medical.primaryCareCopay = <<>>
    /\ AbsentIn("specialist") => medical.specialistCopayText = <<>> /\ medical.specialistCopay = <<>>
    /\ AbsentIn("telehealth") => medical.telehealthPrimary = <<>>
    /\ AbsentIn("referral") => medical.referralRequired = <<>>
    /\ AbsentIn("mnt") => nutrition.mntCovered = "null" /\ nutrition.mntText = <<>>
    /\ AbsentIn("obesity") => /\ nutrition.obesityCounselingCovered = "null"
                              /\ nutrition.obesityCounselingText = <<>>
    /\ AbsentIn("dietitian") => nutrition.dietitianCopayText = <<>>
    /\ AbsentIn("visitLimits") => nutrition.visitLimitsText = <<>>
    /\ AbsentIn("otc") => supplemental.otcAllowance = <<>>
    /\ AbsentIn("food") => supplemental.healthyFoodCard = <<>>
    /\ AbsentIn("postDischarge") => supplemental.postDischargeMeals = <<>>
    /\ AbsentIn("chronic") => supplemental.chronicMeals = <<>>
    /\ AbsentIn("fitness") => supplemental.fitness = <<>>
    /\ AbsentIn("transport") => supplemental.transportation = <<>>

(***************************************************************************)
(* Claims about collectPlansForYear                                        *)
(***************************************************************************)
Scannable(e) == e.contractId # <<>> /\ e.planId # <<>>

\* the key the claim describes for a scanned entry
DescribedKey(e) ==
  NumText(e.year) \o <<"-">> \o ToUpperCase(e.contractId) \o <<"-">>
    \o PadStart(e.planId, 3, "0") \o <<"-">>
    \o (IF e.segmentId = <<>> THEN <<"0","0","0">> ELSE PadStart(e.segmentId, 3, "0"))

\* the first scanned entry bearing the key k
FirstWithKey(k) ==
  byCountyPlans[CHOOSE i \in 1..Len(byCountyPlans) :
                  /\ Scannable(byCountyPlans[i]) /\ DescribedKey(byCountyPlans[i]) = k
                  /\ \A j \in 1..(i - 1) :
                       ~(Scannable(byCountyPlans[j]) /\ DescribedKey(byCountyPlans[j]) = k)]

\* C12: the collected plans have pairwise distinct keys of the form
\* year-UPPERCASE(contractId)-planId padded to 3-segmentId padded to 3 ('000'
\* when absent); every scanned key is collected once, and the plan kept for a
\* key is its first occurrence in scan order, with its names.
C12_DistinctKeysFirstWins ==
  dpc = "collected" =>
    /\ \A i, j \in 1..Len(plans) : i # j => plans[i].cmsPlanKey # plans[j].cmsPlanKey
    /\ \A i \in 1..Len(byCountyPlans) :
         Scannable(byCountyPlans[i]) =>
           \E j \in 1..Len(plans) : plans[j].cmsPlanKey = DescribedKey(byCountyPlans[i])
    /\ \A j \in 1..Len(plans) :
         /\ \E i \in 1..Len(byCountyPlans) :
              Scannable(byCountyPlans[i]) /\ DescribedKey(byCountyPlans[i]) = plans[j].cmsPlanKey
         /\ LET e == FirstWithKey(plans[j].cmsPlanKey)
            IN /\ plans[j].contractId = e.contractId
               /\ plans[j].planId = e.planId
               /\ plans[j].marketingName = e.marketingName
               /\ plans[j].orgName = (IF e.orgName = <<>> THEN e.contractId ELSE e.orgName)

\* C12 witness: h2458/2/no segment scanned first, H2458/002/000 second; one
\* plan is collected, keyed 2025-H2458-002-000, with the first entry's names
C12_Witness ==
  /\ dpc = "collected"
  /\ Len(byCountyPlans) = 2
  /\ byCountyPlans[1].contractId = <<"h","2","4","5","8">>
  /\ byCountyPlans[1].segmentId = <<>>
  /\ byCountyPlans[2].contractId = <<"H","2","4","5","8">>
  /\ byCountyPlans[2].segmentId = <<"0","0","0">>
  /\ Len(plans) = 1
  /\ plans[1].cmsPlanKey = <<"2","0","2","5","-","H","2","4","5","8","-","0","0","2","-","0","0","0">>
  /\ plans[1].orgName = <<"A">>
  /\ plans[1].marketingName = <<"M">>

(***************************************************************************)
(* Claims about the order of the ingestion output                          *)
(***************************************************************************)
\* the number of the first valid source row of a carrier in a county
FirstRowOf(fips, carrier) ==
  CHOOSE i \in 1..Len(rows) :
    /\ rows[i].kind \in ValidKinds /\ resolveRowFips(rows[i]) = fips
    /\ carrierKey(rows[i]) = carrier
    /\ \A j \in 1..(i - 1) :
         ~(/\ rows[j].kind \in ValidKinds /\ resolveRowFips(rows[j]) = fips
           /\ carrierKey(rows[j]) = carrier)

\* the carrier keys of the valid source rows of a county
CarrierKeysOf(fips) ==
  {carrierKey(rows[i]) : i \in {j \in 1..Len(rows) :
      rows[j].kind \in ValidKinds /\ resolveRowFips(rows[j]) = fips}}

\* C13: the county artifacts are determined by the source rows alone, so two
\* runs on the same rows write the same artifacts: an artifact lists exactly
\* the carriers that have a valid source row in the county, each once, in the
\* order of their first source rows, and within a carrier the plans are in
\* source row order (a plan id is its row number).
C13_ArtifactsFollowSourceOrder ==
  \A f \in 1..Len(byCountyFiles) :
    LET cs   == byCountyFiles[f].carriers
        fips == byCountyFiles[f].county_fips
    IN /\ {cs[c].orgName : c \in 1..Len(cs)} = CarrierKeysOf(fips)
       /\ \A c \in 1..(Len(cs) - 1) :
            FirstRowOf(fips, cs[c].orgName) < FirstRowOf(fips, cs[c + 1].orgName)
       /\ \A c \in 1..Len(cs) : \A q \in 1..(Len(cs[c].plans) - 1) :
            NumberOf(cs[c].plans[q].planId) < NumberOf(cs[c].plans[q + 1].planId)
       /\ \A g \in 1..Len(byCountyFiles) : g # f => byCountyFiles[g].county_fips # fips

\* C13 witness: the rows of two carriers of one county alternate in the source
\* and the county's artifact has been written with both carriers
C13_Witness ==
  /\ ipc = "done"
  /\ Len(rows) = 3
  /\ rows[1].kind = "orgB" /\ rows[2].kind = "main" /\ rows[3].kind = "orgB"
  /\ Len(byCountyFiles) = 1
  /\ Len(byCountyFiles[1].carriers) = 2
  /\ byCountyFiles[1].carriers[1].orgName = <<"B">>
  /\ Len(byCountyFiles[1].carriers[1].plans) = 2

(***************************************************************************)
(* build_ma_dataset.mjs : buildZipIndex                                    *)
(***************************************************************************)
\* header.indexOf(name), 0-based, -1 when absent
IndexOf(header, name) ==
  IF \E i \in 1..Len(header) : header[i] = name
  THEN (CHOOSE i \in 1..Len(header) :
          header[i] = name /\ \A j \in 1..(i - 1) : header[j] # name) - 1
  ELSE -1

\* cols[idx]; <<>> when the line has no such column
ColumnOf(cols, idx) == IF idx + 1 <= Len(cols) THEN cols[idx + 1] ELSE <<>>

\* m.set(fips, (m.get(fips) || 0) + 1) on the tally of one ZIP
tallyCounty(m, fips) ==
  LET i == IndexOfKey(m, fips)
  IN IF i = 0 THEN Append(m, [key |-> fips, count |-> 1])
     ELSE [m EXCEPT ![i].count = @ + 1]

\* the body of the loop over the lines, on the map freq
tallyLine(freq, cols, idxZcta, idxCounty) ==
  LET z    == ColumnOf(cols, idxZcta)
      fips == ColumnOf(cols, idxCounty)
      zi   == IndexOfKey(freq, z)
  IN IF cols = <<>> \/ z = <<>> \/ fips = <<>> THEN freq
     ELSE IF zi = 0 THEN Append(freq, [key |-> z, tally |-> tallyCounty(<<>>, fips)])
     ELSE [freq EXCEPT ![zi].tally = tallyCounty(@, fips)]

RECURSIVE tallyLines(_, _, _, _)
tallyLines(freq, lines, idxZcta, idxCounty) ==
  IF lines = <<>> THEN freq
  ELSE tallyLines(tallyLine(freq, lines[1], idxZcta, idxCounty), Tail(lines), idxZcta, idxCounty)

RECURSIVE SumCounts(_)
SumCounts(m) == IF m = <<>> THEN 0 ELSE m[1].count + SumCounts(Tail(m))

\* Math.round((count / total) * 1000), the share in thousandths: Math.round
\* rounds a half upwards
roundShare(count, total) == (2000 * count + total) \div (2 * total)

\* counties left in the order of the tally
sortCountiesAsTallied(cs) == cs

\* counties.sort((a, b) => b[1] - a[1]): stable, larger share first
RECURSIVE sortCounties(_)
sortCounties(cs) ==
  IF cs = <<>> THEN <<>>
  ELSE LET rest == sortCounties(SubSeq(cs, 1, Len(cs) - 1))
           x    == cs[Len(cs)]
           k    == Cardinality({i \in 1..Len(rest) : rest[i].share >= x.share})
       IN SubSeq(rest, 1, k) \o <<x>> \o SubSeq(rest, k + 1, Len(rest))

\* the entry pushed for one ZIP
zipEntry(z) ==
  LET sum   == SumCounts(z.tally)
      total == IF sum = 0 THEN 1 ELSE sum
  IN [zip |-> z.key,
      counties |-> sortCounties([i \in 1..Len(z.tally) |->
                     [fips |-> z.tally[i].key, share |-> roundShare(z.tally[i].count, total)]])]

\* out.sort((a, b) => a.zip.localeCompare(b.zip))
RECURSIVE sortByZip(_)
sortByZip(out) ==
  IF out = <<>> THEN <<>>
  ELSE LET rest == sortByZip(SubSeq(out, 1, Len(out) - 1))
           x    == out[Len(out)]
           k    == Cardinality({i \in 1..Len(rest) : ~TextLess(x.zip, rest[i].zip)})
       IN SubSeq(rest, 1, k) \o <<x>> \o SubSeq(rest, k + 1, Len(rest))

ZctaColumn == "GEOID_ZCTA5_20"
CountyColumn == "GEOID_COUNTY_20"

buildZipIndex(file) ==
  LET idxZcta   == IndexOf(file.header, ZctaColumn)
      idxCounty == IndexOf(file.header, CountyColumn)
  IN IF idxZcta < 0 \/ idxCounty < 0 THEN <<>>
     ELSE LET freq == tallyLines(<<>>, file.lines, idxZcta, idxCounty)
          IN sortByZip([i \in 1..Len(freq) |-> zipEntry(freq[i])])

\* the most data lines of a relationship file
MaxZipLines == 4

Zctas == {<<"0","0","6","0","2">>, <<"0","0","6","0","1">>}
CountyGeoids == {<<"7","2","0","0","1">>, <<"7","2","0","0","3">>, <<"7","2","0","0","5">>}

\* the lines of a file, split at "|": a pair of codes, a line with a blank
\* county, an empty line
ZipLinePool ==
  {<<"x", z, c>> : z \in Zctas, c \in CountyGeoids}
    \cup {<<"x", <<"0","0","6","0","1">>, <<>> >>, <<>>}

RECURSIVE ZipLinesOf(_)
ZipLinesOf(n) ==
  IF n = 0 THEN {<<>>}
  ELSE LET shorter == ZipLinesOf(n - 1)
       IN shorter \cup {Append(l, x) : l \in {m \in shorter : Len(m) = n - 1}, x \in ZipLinePool}

ZipFiles ==
  {[header |-> <<"OID", ZctaColumn, CountyColumn>>, lines |-> l] : l \in ZipLinesOf(MaxZipLines)}
    \cup {[header |-> <<"OID", "ZCTA5", CountyColumn>>,
           lines |-> << <<"x", <<"0","0","6","0","1">>, <<"7","2","0","0","1">>>> >>]}

ZipInit ==
  /\ IngIdle
  /\ DiscIdle
  /\ ExtIdle
  /\ TxtIdle
  /\ TabIdle
  /\ NearIdle
  /\ zpc = "file"
  /\ zfile \in ZipFiles
  /\ zipIndex = <<>>

\* const zipIndex = await buildZipIndex()
BuildZipIndex ==
  /\ zpc = "file"
  /\ zpc' = "done"
  /\ zipIndex' = buildZipIndex(zfile)
  /\ UNCHANGED zfile
  /\ UNCHANGED notZipVars

ZipNext == BuildZipIndex

SpecZip == ZipInit /\ [][ZipNext]_vars

(***************************************************************************)
(* Claims about the ZIP index                                              *)
(***************************************************************************)
RECURSIVE SumShares(_)
SumShares(cs) == IF cs = <<>> THEN 0 ELSE cs[1].share + SumShares(Tail(cs))

Abs(x) == IF x < 0 THEN -x ELSE x

\* C14: in every entry of the ZIP index the county shares (thousandths,
\* count/total rounded to 3 decimals) are in descending order and sum to 1.0
\* within the rounding tolerance, which is half a thousandth per share.
C14_SharesDescendingSumToOne ==
  \A e \in 1..Len(zipIndex) :
    LET cs == zipIndex[e].counties
    IN /\ \A i \in 1..(Len(cs) - 1) : cs[i].share >= cs[i + 1].share
       /\ 2 * Abs(SumShares(cs) - 1000) <= Len(cs)

\* C14 witness: a ZIP tallied 1 : 2 over two counties, listed 0.667 then 0.333,
\* beside a ZIP of three counties with 0.333 each, which sum to 0.999
C14_Witness ==
  /\ zpc = "done"
  /\ \E e \in 1..Len(zipIndex) :
       /\ Len(zipIndex[e].counties) = 2
       /\ zipIndex[e].counties[1].share = 667
       /\ zipIndex[e].counties[2].share = 333
       /\ zipIndex[e].counties[1].fips = <<"7","2","0","0","3">>
       /\ zfile.lines[1][3] = <<"7","2","0","0","1">>

(***************************************************************************)
(* build_ma_dataset.mjs : loadLandscapeRows                                *)
(***************************************************************************)
\* Object.keys(rows[0]).map(h => h.trim().toLowerCase())
headersOf(tbl) == {ToLowerCase(Trim(h)) : h \in tbl.columns}

\* hasYear && hasCounty && hasContract && hasPlan
hasRequiredColumns(tbl) ==
  LET headers == headersOf(tbl)
  IN /\ headers \cap { <<"c","o","n","t","r","a","c","t"," ","y","e","a","r">>,
                      <<"y","e","a","r">> } # {}
     /\ headers \cap { <<"c","o","u","n","t","y"," ","n","a","m","e">>,
                      <<"c","o","u","n","t","y"," ","f","i","p","s">>,
                      <<"c","o","u","n","t","y"," ","c","o","d","e">>,
                      <<"c","o","u","n","t","y"," ","c","o","d","e"," ","(","f","i","p","s",")">> } # {}
     /\ headers \cap { <<"c","o","n","t","r","a","c","t"," ","i","d">>,
                      <<"c","o","n","t","r","a","c","t"," ","n","u","m","b","e","r">> } # {}
     /\ <<"p","l","a","n"," ","i","d">> \in headers

IsCsv(e) == EndsWith(ToLowerCase(e.entryName), <<".","c","s","v">>)
IsXlsx(e) == EndsWith(ToLowerCase(e.entryName), <<".","x","l","s","x">>)

\* the body of the loop over the CSV candidates: is this one returned
csvAccepted(e) ==
  /\ e.parses
  /\ e.tables[1].rows > 0
  /\ hasRequiredColumns(e.tables[1])

\* the body of the loop over the sheets: is this one returned
sheetAccepted(tbl) == tbl.rows > 0 /\ hasRequiredColumns(tbl)

\* loadLandscapeRows(zipPath) on the entries of the archive: the entry (and
\* sheet) whose rows are returned, or the error thrown
loadLandscapeRows(es) ==
  IF \E i \in 1..Len(es) : IsCsv(es[i]) /\ csvAccepted(es[i])
  THEN [st |-> "found", sheet |-> 0,
        entry |-> CHOOSE i \in 1..Len(es) :
                    /\ IsCsv(es[i]) /\ csvAccepted(es[i])
                    /\ \A j \in 1..(i - 1) : ~(IsCsv(es[j]) /\ csvAccepted(es[j]))]
  ELSE IF \E i \in 1..Len(es) : IsXlsx(es[i])
  THEN LET x == CHOOSE i \in 1..Len(es) :
                  IsXlsx(es[i]) /\ \A j \in 1..(i - 1) : ~IsXlsx(es[j])
           sheets == es[x].tables
       IN IF \E k \in 1..Len(sheets) : sheetAccepted(sheets[k])
          THEN [st |-> "found", entry |-> x,
                sheet |-> CHOOSE k \in 1..Len(sheets) :
                            /\ sheetAccepted(sheets[k])
                            /\ \A j \in 1..(k - 1) : ~sheetAccepted(sheets[j])]
          ELSE [st |-> "fatal", entry |-> 0, sheet |-> 0]
  ELSE [st |-> "fatal", entry |-> 0, sheet |-> 0]

\* the most entries of an archive
MaxEntries == 3

ColumnsFull == { <<"C","o","n","t","r","a","c","t"," ","Y","e","a","r"," ">>,
               <<"C","o","u","n","t","y"," ","N","a","m","e">>,
               <<"C","o","n","t","r","a","c","t"," ","I","D">>,
               <<"P","l","a","n"," ","I","D">>,
               <<"O","r","g","a","n","i","z","a","t","i","o","n"," ","N","a","m","e">> }
ColumnsAlt == { <<"y","e","a","r">>,
              <<"c","o","u","n","t","y"," ","c","o","d","e"," ","(","f","i","p","s",")">>,
              <<"c","o","n","t","r","a","c","t"," ","n","u","m","b","e","r">>,
              <<"p","l","a","n"," ","i","d">> }
ColumnsNoPlan == { <<"Y","e","a","r">>,
                 <<"C","o","u","n","t","y"," ","F","I","P","S">>,
                 <<"C","o","n","t","r","a","c","t"," ","I","D">> }

Table(n, columns) == [rows |-> n, columns |-> columns]

EntryKinds == {"csv", "csvUpper", "csvNoPlan", "csvEmpty", "csvBroken", "xlsx", "xlsxPoor", "other"}

\* the i-th entry of an archive, of the given kind; its name begins with i
MkEntry(kind, i) ==
  CASE kind = "csv" ->
         [entryName |-> NumText(i) \o <<".","c","s","v">>, parses |-> TRUE,
          tables |-> <<Table(2, ColumnsFull)>>]
    [] kind = "csvUpper" ->
         [entryName |-> NumText(i) \o <<".","C","S","V">>, parses |-> TRUE,
          tables |-> <<Table(1, ColumnsAlt)>>]
    [] kind = "csvNoPlan" ->
         [entryName |-> NumText(i) \o <<".","c","s","v">>, parses |-> TRUE,
          tables |-> <<Table(3, ColumnsNoPlan)>>]
    [] kind = "csvEmpty" ->
         [entryName |-> NumText(i) \o <<".","c","s","v">>, parses |-> TRUE,
          tables |-> <<Table(0, {})>>]
    [] kind = "csvBroken" ->
         [entryName |-> NumText(i) \o <<".","c","s","v">>, parses |-> FALSE,
          tables |-> <<Table(0, {})>>]
    [] kind = "xlsx" ->
         [entryName |-> NumText(i) \o <<".","x","l","s","x">>, parses |-> TRUE,
          tables |-> <<Table(0, {}), Table(3, ColumnsNoPlan), Table(2, ColumnsFull)>>]
    [] kind = "xlsxPoor" ->
         [entryName |-> NumText(i) \o <<".","X","L","S","X">>, parses |-> TRUE,
          tables |-> <<Table(3, ColumnsNoPlan)>>]
    [] OTHER ->
         [entryName |-> NumText(i) \o <<".","t","x","t">>, parses |-> TRUE, tables |-> <<>>]

RECURSIVE ArchivesOf(_)
ArchivesOf(n) ==
  IF n = 0 THEN {<<>>}
  ELSE LET shorter == ArchivesOf(n - 1)
       IN shorter \cup {Append(a, MkEntry(kind, n)) :
                          a \in {b \in shorter : Len(b) = n - 1}, kind \in EntryKinds}

TabInit ==
  /\ IngIdle
  /\ DiscIdle
  /\ ExtIdle
  /\ TxtIdle
  /\ ZipIdle
  /\ NearIdle
  /\ tpc = "archive"
  /\ entries \in ArchivesOf(MaxEntries)
  /\ landscape = <<>>

\* const { rows, sourceName } = await loadLandscapeRows(cmsZipPath)
LoadLandscapeRows ==
  /\ tpc = "archive"
  /\ tpc' = "done"
  /\ landscape' = loadLandscapeRows(entries)
  /\ UNCHANGED entries
  /\ UNCHANGED notTabVars

TabNext == LoadLandscapeRows

SpecTable == TabInit /\ [][TabNext]_vars

(***************************************************************************)
(* Claims about the detection of the landscape table                       *)
(***************************************************************************)
\* a candidate qualifies when a table of it has rows under a header with a
\* year, a county-identity, a contract-identity and a plan-identity column
Qualifies(e) ==
  /\ e.parses
  /\ \E k \in 1..Len(e.tables) : e.tables[k].rows > 0 /\ hasRequiredColumns(e.tables[k])

\* the candidates in the order of the claim: CSV entries in archive order,
\* then spreadsheet entries in archive order (as indexes into the archive)
CandidateOrder ==
  LET idx == [i \in 1..Len(entries) |-> i]
      Csv(i) == IsCsv(entries[i])
      Xlsx(i) == IsXlsx(entries[i])
  IN SelectSeq(idx, Csv) \o SelectSeq(idx, Xlsx)

\* C15: the table returned is that of the first qualifying candidate, CSV
\* entries in archive order before spreadsheet entries in archive order; the
\* call fails fatally if and only if no candidate of the archive qualifies.
C15_FirstQualifyingCandidateWins ==
  tpc = "done" =>
    LET order == CandidateOrder
        Good(k) == Qualifies(entries[order[k]])
    IN /\ landscape.st = "fatal" <=> ~(\E k \in 1..Len(order) : Good(k))
       /\ landscape.st = "found" =>
            \E k \in 1..Len(order) :
              /\ Good(k) /\ order[k] = landscape.entry
              /\ \A j \in 1..(k - 1) : ~Good(j)

(***************************************************************************)
(* Claims about the requests of a discovery task                           *)
(***************************************************************************)
\* the candidates of the q-th query of a task that have been requested
RequestedOf(t, q) ==
  LET cands == pdfFirst(t.log[q])
      n == IF q < t.q THEN Len(cands)
           ELSE IF t.st \in {"fetch", "found"} THEN t.c
           ELSE Len(cands)
  IN SubSeq(cands, 1, n)

\* the request for the document failed: a network error or an HTTP error
FetchFailed(resp) == resp.net \in {"throw", "notok"}

\* C16: a document fetch that failed is not retried: for any plan, no
\* candidate URL is requested again after a failed request for it, across all
\* of the plan's queries.
C16_FailedFetchNotRetried ==
  \A i \in 1..Len(task) :
    \A q2 \in 1..Len(task[i].log) : \A q1 \in 1..(q2 - 1) :
      \A c2 \in 1..Len(RequestedOf(task[i], q2)) :
        LET url == RequestedOf(task[i], q2)[c2]
        IN ~(/\ FetchFailed(docs[url])
             /\ \E c1 \in 1..Len(RequestedOf(task[i], q1)) : RequestedOf(task[i], q1)[c1] = url)

(***************************************************************************)
(* Claims about the output collections of the pooled stages                *)
(***************************************************************************)
\* the plans whose task ended without a URL, in the order of the tasks
MissedInTaskOrder ==
  LET idx == [i \in 1..Len(plans) |-> i]
      Missed(i) == task[i].st = "miss"
      m == SelectSeq(idx, Missed)
  IN [k \in 1..Len(m) |-> plans[m[k]]]

\* the rows of the plans whose task ended with a URL, in the order of the tasks
FoundInTaskOrder ==
  LET idx == [i \in 1..Len(plans) |-> i]
      Found(i) == task[i].st = "found"
      m == SelectSeq(idx, Found)
  IN [k \in 1..Len(m) |-> csvRow(plans[m[k]], task[m[k]].url)]

\* C17: the output collections of a stage are index-addressed by task, so
\* their contents and order do not depend on the order in which the tasks
\* complete: the resolved rows and the unresolved list of discovery, and the
\* results of extraction, are in the order of the tasks.
C17_OutputsInTaskOrder ==
  /\ (dpc = "done" /\ serpKey) =>
       /\ missingFile.plans = MissedInTaskOrder
       /\ sourcesFile.rows = sortRows(FoundInTaskOrder)
  /\ xpc = "done" =>
       LET g == goodResults(xtask)
       IN planIndexFile.entries = [j \in 1..Len(g) |-> indexEntry(allSources[g[j]])]

(***************************************************************************)
(* Claims about the county keys of the ingestion output                    *)
(***************************************************************************)
IsFiveDigits(k) == Len(k) = 5 /\ \A i \in 1..Len(k) : IsDigit(k[i])

\* C18: every county artifact, and every entry of the county index, is keyed
\* by a county FIPS of exactly 5 digit characters, whatever the FIPS cell
\* holds and whatever the gazetteer lookup gives.
C18_CountyKeysAreFiveDigits ==
  /\ \A f \in 1..Len(byCountyFiles) : IsFiveDigits(byCountyFiles[f].county_fips)
  /\ \A e \in 1..Len(countyIndexFile) : IsFiveDigits(countyIndexFile[e].fips)


\* the two files of target year y as the guard leaves them: the table holds
\* only its header line and the unresolved list is empty
HeaderOnlyPair(y) ==
  IF y = TargetYear
    THEN /\ sourcesFile = [written |-> TRUE, rows |-> <<>>]
         /\ missingFile = [written |-> TRUE, plans |-> <<>>]
    ELSE /\ y \in DOMAIN autoOther
         /\ autoOther[y] = [rows |-> <<>>, plans |-> <<>>]

\* C19: when no search credential is configured the discovery stage issues
\* no search or fetch request (no plan is collected, no task is pooled or
\* queued, nothing is found or missed), it never fails, and when it has ended
\* every target year has a source table holding only the header line and an
\* empty unresolved list.
C19_NoCredentialSkipsDiscovery ==
  ~serpKey =>
    /\ dpc \in {"idle", "start", "done"}
    /\ plans = <<>> /\ task = <<>> /\ queue = <<>>
    /\ foundRows = <<>> /\ missing = <<>>
    /\ (dpc = "done" => \A i \in 1..Len(dyears) : HeaderOnlyPair(dyears[i]))

\* a run without credential that ended, with two different target years
C19_Witness ==
  /\ dpc = "done"
  /\ ~serpKey
  /\ Len(dyears) = 2
  /\ dyears[1] # dyears[2]
  /\ HeaderOnlyPair(dyears[1])
  /\ HeaderOnlyPair(dyears[2])


(***************************************************************************)
(* The pooled stages under fair scheduling: the event loop runs every      *)
(* continuation that is ready, and every pending search, fetch, parse or   *)
(* write eventually settles                                                *)
(***************************************************************************)
\* the enabling condition of Launch
LaunchReady == dpc = "start" /\ serpKey

\* the enabling condition of FetchDone: a fetch of some pooled task is pending
FetchPending == dpc = "running" /\ \E i \in 1..Len(plans) : task[i].st = "fetch"

\* weak fairness of every step; for Launch and FetchDone it is written out
\* with the enabling condition in place of ENABLED
PoolsFairness ==
  /\ WF_vars(NoKeyExit)
  /\ []<>(~LaunchReady) \/ []<><<Launch>>_vars
  /\ WF_vars(SearchDone)
  /\ []<>(~FetchPending) \/ []<><<FetchDone>>_vars
  /\ WF_vars(WriteOutputs)
  /\ WF_vars(LoadSources)
  /\ WF_vars(XFetchDone)
  /\ WF_vars(XParseDone)
  /\ WF_vars(XWriteDone)
  /\ WF_vars(WritePlanIndex)

SpecPoolsFair == PoolsInit /\ [][PoolsNext]_vars /\ PoolsFairness

\* the discovery run has ended with both files written and every collected
\* plan in the table or in the unresolved list
DiscoveryAccounted ==
  /\ dpc = "done"
  /\ sourcesFile.written
  /\ missingFile.written
  /\ \A i \in 1..Len(plans) : InTable(plans[i]) \/ InMissing(plans[i])

\* the extraction run has ended with the plan index written and every source
\* processed to a result or to a logged failure
ExtractionAccounted ==
  /\ xpc = "done"
  /\ planIndexFile.written
  /\ \A i \in 1..Len(allSources) : XFinished(xtask[i])

\* C20: once a discovery or extraction run has started its task pool, and
\* every network or parse operation eventually completes or fails, the run
\* eventually terminates with its final outputs written and every plan of the
\* batch accounted for.
C20_StartedPoolTerminates ==
  /\ (dpc = "running") ~> DiscoveryAccounted
  /\ (xpc = "running") ~> ExtractionAccounted


(***************************************************************************)
(* build_ma_dataset.mjs run again, after the other two scripts have        *)
(* written below dist/benefits                                             *)
(***************************************************************************)
\* the files below dist/benefits: what discovery and extraction wrote
benefitsArtifacts == <<sourcesFile, missingFile, autoOther, byPlanFiles, planIndexFile>>

\* what earlier runs of discovery and extraction may have left there: nothing;
\* the files of a run without credential over two years and an empty index;
\* a resolved and an unresolved plan with one or two extracted plans
EarlierArtifacts == {
  [sources |-> [written |-> FALSE, rows |-> <<>>],
   unresolved |-> [written |-> FALSE, plans |-> <<>>],
   other |-> <<>>, byPlan |-> {},
   index |-> [written |-> FALSE, entries |-> <<>>]],
  [sources |-> [written |-> TRUE, rows |-> <<>>],
   unresolved |-> [written |-> TRUE, plans |-> <<>>],
   other |-> [y \in {TargetYear + 1} |-> [rows |-> <<>>, plans |-> <<>>]],
   byPlan |-> {},
   index |-> [written |-> TRUE, entries |-> <<>>]],
  [sources |-> [written |-> TRUE, rows |-> <<SrcRow(K1, U1)>>],
   unresolved |-> [written |-> TRUE, plans |-> <<>>],
   other |-> <<>>,
   byPlan |-> {benefitRecord(SrcRow(K1, U1))},
   index |-> [written |-> TRUE, entries |-> <<indexEntry(SrcRow(K1, U1))>>]],
  [sources |-> [written |-> TRUE, rows |-> <<SrcRow(K1, U1)>>],
   unresolved |-> [written |-> TRUE, plans |-> <<SrcRow(K3, <<>>)>>],
   other |-> <<>>,
   byPlan |-> {benefitRecord(SrcRow(K1, U1)), benefitRecord(SrcRow(K2, U2))},
   index |-> [written |-> TRUE,
              entries |-> <<indexEntry(SrcRow(K1, U1)), indexEntry(SrcRow(K2, U2))>>]] }

\* the ingestion script is about to run; the other scripts are not running
\* and their files are on disk
RerunInit ==
  /\ TxtIdle
  /\ ZipIdle
  /\ TabIdle
  /\ NearIdle
  /\ ipc = "clean"
  /\ rows = <<>>
  /\ carriersByCounty = <<>>
  /\ emitIdx = 0
  /\ byCountyFiles = <<>>
  /\ countyIndexFile = <<>>
  /\ dpc = "idle" /\ serpKey = FALSE /\ conc = 0 /\ byCountyPlans = <<>>
  /\ plans = <<>> /\ docs = <<>> /\ task = <<>> /\ queue = <<>>
  /\ foundRows = <<>> /\ missing = <<>> /\ dyears = <<>>
  /\ xpc = "idle" /\ requireOk = FALSE /\ years = <<>>
  /\ manualTables = <<>> /\ autoTables = <<>> /\ xdocs = <<>>
  /\ allSources = <<>> /\ xtask = <<>> /\ xqueue = <<>>
  /\ \E a \in EarlierArtifacts :
       /\ sourcesFile = a.sources
       /\ missingFile = a.unresolved
       /\ autoOther = a.other
       /\ byPlanFiles = a.byPlan
       /\ planIndexFile = a.index

\* fs.rm(OUT_DIR, { recursive: true, force: true }); fs.mkdir(OUT_DIR):
\* OUT_DIR is dist, so everything below it goes, dist/benefits included
CleanOutDir ==
  /\ ipc = "clean"
  /\ ipc' = "rows"
  /\ byCountyFiles' = <<>>
  /\ countyIndexFile' = <<>>
  /\ sourcesFile' = [written |-> FALSE, rows |-> <<>>]
  /\ missingFile' = [written |-> FALSE, plans |-> <<>>]
  /\ autoOther' = <<>>
  /\ byPlanFiles' = {}
  /\ planIndexFile' = [written |-> FALSE, entries |-> <<>>]
  /\ UNCHANGED <<rows, carriersByCounty, emitIdx>>
  /\ UNCHANGED <<dpc, serpKey, conc, byCountyPlans, plans, docs, task, queue, foundRows,
                 missing, dyears>>
  /\ UNCHANGED <<xpc, requireOk, years, manualTables, autoTables, xdocs, allSources, xtask,
                 xqueue>>
  /\ UNCHANGED <<txtVars, zipVars, tabVars, nearVars>>

RerunNext == CleanOutDir \/ ReadRow \/ EmitCounty \/ WriteCountyIndex

SpecRerun == RerunInit /\ [][RerunNext]_vars

\* C21: re-running the Ingestion Engine alone, after discovery and extraction
\* have produced their artifacts, leaves the source tables, the unresolved
\* lists, the per-plan benefit files and the plan index unchanged: no step of
\* the ingestion run changes any of them.
C21_IngestionLeavesBenefitsArtifacts == [][UNCHANGED benefitsArtifacts]_vars


(***************************************************************************)
(* build_ma_benefits.mjs run over a by-plan directory that earlier runs    *)
(* have written to: mkdir(by-plan, { recursive: true }) keeps what is there *)
(***************************************************************************)
\* the per-plan files an earlier run may have left: none, one of a plan this
\* run's tables may name again, one of a plan no table names any more
EarlierByPlan == {{}, {benefitRecord(SrcRow(K1, U2))}, {benefitRecord(SrcRow(K4, U2))},
                  {benefitRecord(SrcRow(K2, U1)), benefitRecord(SrcRow(K4, U2))}}

ExtAgainInit ==
  /\ IngIdle
  /\ DiscIdle
  /\ TxtIdle
  /\ ZipIdle
  /\ TabIdle
  /\ NearIdle
  /\ xpc = "start"
  /\ requireOk \in BOOLEAN
  /\ years \in YearLists
  /\ \E m \in ManualChoices :
       manualTables = [y \in {TargetYear, TargetYear + 1} |-> IF y = TargetYear THEN m ELSE <<>>]
  /\ \E a \in AutoChoices, b \in NextYearChoices :
       autoTables = [y \in {TargetYear, TargetYear + 1} |-> IF y = TargetYear THEN a ELSE b]
  /\ xdocs \in XDocWorlds
  /\ allSources = <<>>
  /\ xtask = <<>>
  /\ xqueue = <<>>
  /\ byPlanFiles \in EarlierByPlan
  /\ planIndexFile = [written |-> FALSE, entries |-> <<>>]

SpecExtractAgain == ExtAgainInit /\ [][ExtNext]_vars

\* the plans that have a per-plan file, and the plans the plan index lists
FileKeys == {f.cmsPlanKey : f \in byPlanFiles}
IndexKeys == {planIndexFile.entries[e].cmsPlanKey : e \in 1..Len(planIndexFile.entries)}

\* C22: after an extraction run completes, the per-plan benefit artifacts
\* present are exactly those of the plans listed in that run's plan index; no
\* artifact of an earlier run survives for a plan this run did not process
\* successfully.
C22_ByPlanFilesAreThoseOfTheIndex ==
  xpc = "done" => FileKeys = IndexKeys


(***************************************************************************)
(* The order in which resolveOne takes its candidates                      *)
(***************************************************************************)
\* does the link contain ".pdf": in any letter case, or as written
NamesPdf(u, anyCase) ==
  IF anyCase THEN Contains(ToLowerCase(u), <<".","p","d","f">>)
  ELSE Contains(u, <<".","p","d","f">>)

\* one query's results with every link naming ".pdf" before every other link,
\* each group in result order
PdfLinksFirst(urls, anyCase) ==
  LET Is(u) == NamesPdf(u, anyCase)
      IsNot(u) == ~NamesPdf(u, anyCase)
  IN SelectSeq(urls, Is) \o SelectSeq(urls, IsNot)

\* the candidates of the first n answered queries, query after query
RECURSIVE CandidatesThrough(_, _, _)
CandidatesThrough(log, n, anyCase) ==
  IF n = 0 THEN <<>>
  ELSE CandidatesThrough(log, n - 1, anyCase) \o PdfLinksFirst(log[n], anyCase)

NoneVerifies(p, cands) ==
  \A j \in 1..Len(cands) : ~candidateVerifies(p, cands[j], docs[cands[j]])

\* the first candidate of the sequence that verifies for plan p, <<>> if none
FirstVerifying(p, cands) ==
  IF NoneVerifies(p, cands) THEN <<>>
  ELSE LET j == CHOOSE j \in 1..Len(cands) :
                  /\ candidateVerifies(p, cands[j], docs[cands[j]])
                  /\ NoneVerifies(p, SubSeq(cands, 1, j - 1))
       IN cands[j]

\* where task t of plan p stands in the order of the claim: the queries are
\* answered one after the other, the candidate being fetched is the next of
\* the order and none before it verified, the URL returned is the first of the
\* order that verifies and was met in the last query searched, and null is
\* returned only when every query was searched and no candidate verified
TaskFollowsOrder(p, t, anyCase) ==
  LET all == CandidatesThrough(t.log, Len(t.log), anyCase)
  IN /\ t.st = "search" => Len(t.log) = t.q - 1
     /\ t.st = "fetch" =>
          /\ Len(t.log) = t.q
          /\ t.c \in 1..Len(PdfLinksFirst(t.log[t.q], anyCase))
          /\ NoneVerifies(p, CandidatesThrough(t.log, t.q - 1, anyCase)
                               \o SubSeq(PdfLinksFirst(t.log[t.q], anyCase), 1, t.c - 1))
     /\ t.st = "found" =>
          /\ Len(t.log) = t.q
          /\ t.url = FirstVerifying(p, all)
          /\ NoneVerifies(p, CandidatesThrough(t.log, t.q - 1, anyCase))
     /\ t.st = "miss" =>
          /\ Len(t.log) = Len(buildQueries(p))
          /\ NoneVerifies(p, all)

\* once a candidate verified the task issues no search and no fetch any more
FoundTasksRest == \A i \in DOMAIN task : task[i].st = "found" => task'[i] = task[i]

\* C23: resolveOne takes the plan's queries in buildQueries order and, within
\* one query's results, every link containing ".pdf" in any letter case before
\* every other link, each group in result order; it returns the first
\* candidate of that order that verifies, and after a candidate verified it
\* issues no further search and no further fetch for the plan.
C23_FirstVerifyingCandidateWins ==
  /\ [](\A i \in DOMAIN task : TaskFollowsOrder(plans[i], task[i], TRUE))
  /\ [][FoundTasksRest]_vars

\* a plan resolved in its second query or later by a link written ".PDF" that
\* the search listed after a link without it
C23_Witness ==
  \E i \in DOMAIN task :
    /\ task[i].st = "found"
    /\ task[i].q >= 2
    /\ task[i].url = UrlA
    /\ task[i].log[task[i].q] = <<UrlC, UrlA>>

\* C23 as stated: the links put first are those containing ".pdf" as written
C23_AsStated ==
  /\ [](\A i \in DOMAIN task : TaskFollowsOrder(plans[i], task[i], FALSE))
  /\ [][FoundTasksRest]_vars



(***************************************************************************)
(* build_ma_benefits.mjs : findNearby on its own                           *)
(***************************************************************************)
\* the most lines of a text given to normalize
MaxNearLines == 5

\* lines that match the patterns below in one letter case or another, lines
\* that do not, and a line that normalize discards
NearLinePool == {
  <<"(","M","N","T",")">>,
  <<" ","N","u","t","r","i","t","i","o","n"," "," ","T","h","e","r","a","p","y">>,
  <<"I","B","T">>,
  <<"c","o","p","a","y">>,
  <<" "," ">> }

\* the radii given: the default and the one of findProgram, and a smaller one
Radii == {1, 3, DefaultRadius}

NearInit ==
  /\ IngIdle
  /\ DiscIdle
  /\ ExtIdle
  /\ TxtIdle
  /\ ZipIdle
  /\ TabIdle
  /\ kpc = "text"
  /\ ktext \in TextsFrom(NearLinePool, MaxNearLines)
  /\ kpattern \in {"mnt", "obesity"}
  /\ kradius \in Radii
  /\ snippet = <<>>

\* findNearby(normalize(text), pattern, radius)
FindNearby ==
  /\ kpc = "text"
  /\ kpc' = "done"
  /\ snippet' = findNearby(normalize(ktext), kpattern, kradius)
  /\ UNCHANGED <<ktext, kpattern, kradius>>
  /\ UNCHANGED notNearVars

NearNext == FindNearby

SpecNearby == NearInit /\ [][NearNext]_vars

\* the lines from the first to the last, joined by single spaces
RECURSIVE SpaceJoined(_, _, _)
SpaceJoined(ls, first, last) ==
  IF first > last THEN <<>>
  ELSE IF first = last THEN ls[first]
  ELSE SpaceJoined(ls, first, last - 1) \o <<" ">> \o ls[last]

\* the indexes (from 0) of the normalized lines that match the pattern
MatchingLines(n, pattern) ==
  {i \in 0..(Len(n.lower) - 1) : PatternTest(pattern, n.lower[i + 1])}

SmallestOf(S) == CHOOSE i \in S : \A j \in S : i <= j

\* C24: findNearby returns absent when no line matches the pattern; otherwise,
\* with i the smallest index of a matching line among the normalized lines, it
\* returns the cased lines with indexes from max(0, i - radius) to
\* min(lastIndex, i + radius) inclusive, in order, joined by single spaces; a
\* later matching line has no part in the result.
C24_WindowAroundFirstMatch ==
  kpc = "done" =>
    LET n == normalize(ktext)
        M == MatchingLines(n, kpattern)
    IN IF M = {} THEN ~snippet.found
       ELSE LET i == SmallestOf(M)
                lastIndex == Len(n.lines) - 1
            IN /\ snippet.found
               /\ snippet.text = SpaceJoined(n.lines, Max(0, i - kradius) + 1,
                                             Min(lastIndex, i + kradius) + 1)

\* a window cut on both sides by the radius, with a later matching line
\* outside it and a cased line inside it
C24_Witness ==
  /\ kpc = "done"
  /\ snippet.found
  /\ LET n == normalize(ktext)
         M == MatchingLines(n, kpattern)
         i == SmallestOf(M)
     IN /\ i - kradius > 0
        /\ i + kradius < Len(n.lines) - 1
        /\ \E j \in M : j > i + kradius
        /\ n.lines[i + 1] # n.lower[i + 1]

(***************************************************************************)
(* Claims about a carrier's contract ids                                   *)
(***************************************************************************)
\* the values of a sequence, each kept at its first occurrence only
RECURSIVE FirstSeen(_)
FirstSeen(s) ==
  IF s = <<>> THEN <<>>
  ELSE LET front == FirstSeen(SubSeq(s, 1, Len(s) - 1))
           x     == s[Len(s)]
       IN IF \E i \in 1..Len(front) : front[i] = x THEN front ELSE Append(front, x)

\* the trimmed contract ids of the valid source rows of one carrier in one
\* county, one per row, in source row order
ContractIdsOfRows(fips, carrier) ==
  LET vr == ValidRowsOf(fips, carrier)
  IN [i \in 1..Len(vr) |-> Trim(vr[i].contract)]

\* C25: in every emitted county artifact, a carrier's contractIds is the
\* duplicate-free list, in first-seen order, of the contract ids of all the
\* carrier's valid source rows in that county (rows past the 20-plan cap
\* included), and the contractId of every emitted plan is one of its members.
C25_ContractIdsCoverAllValidRows ==
  \A f \in 1..Len(byCountyFiles) :
    \A c \in 1..Len(byCountyFiles[f].carriers) :
      LET car == byCountyFiles[f].carriers[c]
          ids == car.contractIds
      IN /\ \A i, j \in 1..Len(ids) : ids[i] = ids[j] => i = j
         /\ ids = FirstSeen(ContractIdsOfRows(byCountyFiles[f].county_fips, car.orgName))
         /\ \A p \in 1..Len(car.plans) :
              \E i \in 1..Len(ids) : ids[i] = car.plans[p].contractId

\* an emitted carrier with more valid rows than the cap, one of whose contract
\* ids comes only from a row past the cap and so belongs to no emitted plan
C25_Witness ==
  \E f \in 1..Len(byCountyFiles) :
    \E c \in 1..Len(byCountyFiles[f].carriers) :
      LET car == byCountyFiles[f].carriers[c]
      IN /\ Len(ValidRowsOf(byCountyFiles[f].county_fips, car.orgName)) > PlanCap
         /\ Len(car.plans) = PlanCap
         /\ Len(car.contractIds) > 1
         /\ \E i \in 1..Len(car.contractIds) :
              \A p \in 1..Len(car.plans) : car.plans[p].contractId # car.contractIds[i]

====
